---- MODULE Spec2Model ----
(***************************************************************************)
(* Account lifecycle of the online-cinema backend: the accounts router     *)
(* (src/src/routers/accounts.py), the bearer-auth dependency               *)
(* (src/src/security/dependencies.py), the email service                   *)
(* (src/src/services/email.py) and the token cleanup task                  *)
(* (src/src/tasks/cleanup.py), over the users / activation_tokens /        *)
(* password_reset_tokens / refresh_tokens tables.                          *)
(*                                                                         *)
(* One action per HTTP handler or task; every handler runs as one atomic   *)
(* step (one request, one session, one transaction), except in SpecRace,   *)
(* where resend and the password reset request are split at their commit.  *)
(* Time is counted in days, the unit of LOGIN_TIME_DAYS.                   *)
(***************************************************************************)
EXTENDS Integers, Sequences, FiniteSets, TLC

(* ------------------------------ bounds --------------------------------- *)
\* the clock is observed from day 0 to the day the first activation token
\* expires, and on days LOGIN_TIME_DAYS..LOGIN_TIME_DAYS + MaxLate
MaxLate == 1
\* number of token rows (activation, reset, refresh) ever inserted
MaxIds == 3

Emails == {"ann@x.io", "bob@x.io"}
Passwords == {"pw1", "pw2"}
\* the passwords users register with (login tries every password)
RegisterPasswords == {"pw1"}
\* the passwords a reset or a change sets when every operation is covered
NewPasswords == {"pw2"}

(* ------------------------- program constants --------------------------- *)
LOGIN_TIME_DAYS == 7
SECRET_KEY == "YOUR_SECRET_KEY"
ALGORITHM == "HS256"
SECRET_KEY_ACCESS == "CHANGE_ME_ACCESS"
SECRET_KEY_REFRESH == "CHANGE_ME_REFRESH"
JWT_SIGNING_ALGORITHM == "HS256"
FRONTEND_URL == <<"http://localhost:3000">>
SMTP_FROM == "no-reply@example.com"

\* lifetimes fixed by the account models and the JWT manager
ActivationTokenDays == 1
PasswordResetTokenDays == 1
AccessTokenDays == 1
RefreshTokenDays == 7

None == 0
NoHost == "None"
UserGroupEnum_USER == "USER"

VARIABLES
    users,                  \* users table: sequence, users[id] is the row with that id
    user_groups,            \* names of the rows of the user_groups table
    activation_tokens,      \* rows [id, user_id, token, expires_at]
    password_reset_tokens,  \* rows [id, user_id, token, expires_at]
    refresh_tokens,         \* rows [id, user_id, token, expires_at]
    next_id,                \* next row id / next generated token value
    now,                    \* datetime.now(timezone.utc)
    SMTP_HOST,              \* settings.SMTP_HOST
    movies,                 \* movies table with its stars and directors: sequence, movies[id]
    user_favorites,         \* rows <<user_id, movie_id>> of the association table
    query,                  \* the query parameters of the listing request in flight
    inflight,               \* requests suspended between their delete and their commit
    mail,                   \* the send_*_email calls of the last request
    resp                    \* the last request and its response

vars == <<users, user_groups, activation_tokens, password_reset_tokens,
          refresh_tokens, next_id, now, SMTP_HOST, movies, user_favorites, query,
          inflight, mail, resp>>

tables == <<users, user_groups, activation_tokens, password_reset_tokens,
            refresh_tokens>>

\* the movie catalogue, the favourites of the users and the listing request
catalog == <<movies, user_favorites, query>>

(* ------------------------------ helpers -------------------------------- *)

\* UserModel.password setter / UserModel.create: the password is stored hashed
hash_password(raw) == <<"hashed", raw>>

\* UserModel.verify_password
verify_password(user, raw) == user.password = hash_password(raw)

\* UserModel.create(email, raw_password, group_id): a new user is inactive
UserModel_create(email, raw_password, group_id) ==
    [email |-> email, password |-> hash_password(raw_password),
     is_active |-> FALSE, group_id |-> group_id]

\* select(UserModel).where(UserModel.email == email) ... .first()
FindUser(email) ==
    IF \E i \in 1..Len(users) : users[i].email = email
    THEN CHOOSE i \in 1..Len(users) : users[i].email = email
    ELSE None

\* ActivationTokenModel(user_id=...) / PasswordResetTokenModel(user_id=...):
\* a fresh opaque token string and an expiry a fixed time ahead
TokenModel(id, user_id, days) ==
    [id |-> id, user_id |-> user_id, token |-> id, expires_at |-> now + days]

\* RefreshTokenModel.create(user_id, days_valid, token)
RefreshTokenModel_create(id, user_id, days_valid, token) ==
    [id |-> id, user_id |-> user_id, token |-> token, expires_at |-> now + days_valid]

\* an expiry check that lets a row live through the instant it expires at
Expired_strict(row) == row.expires_at < now

\* the comparison of every router and of the cleanup task: expires_at <= now
Expired(row) == row.expires_at <= now

(* -------------------------------- JWT ---------------------------------- *)

\* a token nobody signed
MalformedToken == [key |-> "", alg |-> "", claims |-> [none |-> None], exp |-> 0]

\* JWTAuthManager.create_access_token(data)
create_access_token(data) ==
    [key |-> SECRET_KEY_ACCESS, alg |-> JWT_SIGNING_ALGORITHM, claims |-> data,
     exp |-> now + AccessTokenDays]

\* JWTAuthManager.create_refresh_token(data)
create_refresh_token(data) ==
    [key |-> SECRET_KEY_REFRESH, alg |-> JWT_SIGNING_ALGORITHM, claims |-> data,
     exp |-> now + RefreshTokenDays]

\* jose jwt.decode(token, key, algorithms=[alg]) at instant t: TRUE when it does not raise
jwt_decodes(token, key, alg, t) ==
    /\ token.key = key
    /\ token.alg = alg
    /\ ~(token.exp < t)

\* payload.get(name)
claim_get(claims, name) ==
    IF name \in DOMAIN claims THEN claims[name] ELSE None

\* JWTAuthManager.decode_refresh_token / verify_refresh_token_or_raise at instant t:
\* TRUE when no BaseSecurityError is raised
refresh_token_decodes(token, t) ==
    jwt_decodes(token, SECRET_KEY_REFRESH, JWT_SIGNING_ALGORITHM, t)

\* what a handler is left with when its dependency raised something that is
\* not an HTTPException
AttributeError == -1

\* get_current_user(token, db): None for the 401.  db is the AsyncSession that
\* get_db yields to every handler, so db.get(UserModel, user_id), called without
\* await, is a coroutine object: `user is None` is false for it and
\* `user.is_active` raises AttributeError, whatever row the id would have found
get_current_user(token) ==
    IF ~jwt_decodes(token, SECRET_KEY, ALGORITHM, now) THEN None
    ELSE LET user_id == claim_get(token.claims, "sub") IN
         IF user_id = None THEN None
         ELSE AttributeError

(* ------------------------------- email --------------------------------- *)

RECURSIVE rstrip(_)
\* str.rstrip('/') on a URL held as a sequence of pieces
rstrip(s) ==
    IF s # <<>> /\ s[Len(s)] = "/" THEN rstrip(SubSeq(s, 1, Len(s) - 1)) ELSE s

\* what the transport can do with one message, given settings.SMTP_HOST
SendOutcomes == IF SMTP_HOST = NoHost THEN {"skipped"} ELSE {"sent", "raised"}

\* send_email(settings, to_email, subject, body)
send_email(to_email, subject, body, outcome) ==
    [to |-> to_email, from |-> SMTP_FROM, subject |-> subject, body |-> body,
     result |-> outcome]

\* a send_activation_email that leaves the token out of the link
send_activation_email_no_token(to_email, token, outcome) ==
    LET link == [base |-> rstrip(FRONTEND_URL), path |-> "/activate",
                 email |-> to_email, token |-> None]
    IN  send_email(to_email, "Activate your account",
                   [text |-> "Activation link: ", link |-> link], outcome)

\* send_activation_email(settings, to_email, token)
send_activation_email(to_email, token, outcome) ==
    LET link == [base |-> rstrip(FRONTEND_URL), path |-> "/activate",
                 email |-> to_email, token |-> token]
    IN  send_email(to_email, "Activate your account",
                   [text |-> "Activation link: ", link |-> link], outcome)

\* send_password_reset_email(settings, to_email, token)
send_password_reset_email(to_email, token, outcome) ==
    LET link == [base |-> rstrip(FRONTEND_URL), path |-> "/reset-password",
                 email |-> to_email, token |-> token]
    IN  send_email(to_email, "Reset your password",
                   [text |-> "Password reset link: ", link |-> link], outcome)

(* ------------------------------ responses ------------------------------ *)

NoBody == [none |-> None]

\* commit: whether the handler reached an `await db.commit()`
Response(op, req, status, detail, body) ==
    [op |-> op, req |-> req, status |-> status, detail |-> detail, body |-> body,
     commit |-> FALSE]

Committed(response) == [response EXCEPT !.commit = TRUE]

\* raise HTTPException(status_code, detail)
HTTPException(op, req, status, detail) == Response(op, req, status, detail, NoBody)

\* an exception no handler catches: the framework's 500
Uncaught(op, req) == Response(op, req, 500, "Internal Server Error", NoBody)

MessageResponse(op, req, status, message) ==
    Response(op, req, status, "", [message |-> message])

(* -------------------------------- Init --------------------------------- *)

Init ==
    /\ users = <<>>
    /\ user_groups \in {{}, {UserGroupEnum_USER}}
    /\ activation_tokens = {}
    /\ password_reset_tokens = {}
    /\ refresh_tokens = {}
    /\ next_id = 1
    /\ now = 0
    /\ SMTP_HOST \in {NoHost, "smtp.x.io"}
    /\ movies = <<>>
    /\ user_favorites = {}
    /\ query = NoBody
    /\ inflight = {}
    /\ mail = <<>>
    /\ resp = Response("none", NoBody, 0, "", NoBody)

(* ------------------------------ register ------------------------------- *)

\* a registration that sends the email inside the transaction: when the
\* transport raises, nothing is committed
register_user_sends_first(email, password) ==
    LET req == NoBody IN
    IF FindUser(email) # None
    THEN /\ resp' = HTTPException("register", req, 409,
                                  <<"A user with this email ", email, " already exists.">>)
         /\ mail' = <<>>
         /\ UNCHANGED <<tables, next_id, now, SMTP_HOST, catalog, inflight>>
    ELSE IF UserGroupEnum_USER \notin user_groups
    THEN /\ resp' = HTTPException("register", req, 500, "Default user group not found.")
         /\ mail' = <<>>
         /\ UNCHANGED <<tables, next_id, now, SMTP_HOST, catalog, inflight>>
    ELSE /\ next_id <= MaxIds
         /\ LET new_user == UserModel_create(email, password, 1)
                new_id == Len(users) + 1
                activation == TokenModel(next_id, new_id, ActivationTokenDays)
            IN  \E outcome \in SendOutcomes :
                   /\ mail' = <<send_activation_email(email, activation.token, outcome)>>
                   /\ next_id' = next_id + 1
                   /\ IF outcome = "raised"
                      THEN /\ resp' = Uncaught("register", req)
                           /\ UNCHANGED <<users, activation_tokens>>
                      ELSE /\ users' = Append(users, new_user)
                           /\ activation_tokens' = activation_tokens \cup {activation}
                           /\ resp' = Committed(Response("register", req, 201, "",
                                                         [id |-> new_id, email |-> email]))
         /\ UNCHANGED <<user_groups, password_reset_tokens, refresh_tokens, now, SMTP_HOST, catalog, inflight>>

register_user(email, password) ==
    LET req == NoBody IN
    IF FindUser(email) # None
    THEN /\ resp' = HTTPException("register", req, 409,
                                  <<"A user with this email ", email, " already exists.">>)
         /\ mail' = <<>>
         /\ UNCHANGED <<tables, next_id, now, SMTP_HOST, catalog, inflight>>
    ELSE IF UserGroupEnum_USER \notin user_groups
    THEN /\ resp' = HTTPException("register", req, 500, "Default user group not found.")
         /\ mail' = <<>>
         /\ UNCHANGED <<tables, next_id, now, SMTP_HOST, catalog, inflight>>
    ELSE /\ next_id <= MaxIds
         /\ LET new_user == UserModel_create(email, password, 1)
                new_id == Len(users) + 1
                activation == TokenModel(next_id, new_id, ActivationTokenDays)
            IN  /\ users' = Append(users, new_user)
                /\ activation_tokens' = activation_tokens \cup {activation}
                /\ next_id' = next_id + 1
                /\ \E outcome \in SendOutcomes :
                     /\ mail' = <<send_activation_email(email, activation.token, outcome)>>
                     /\ resp' = Committed(IF outcome = "raised"
                                          THEN Uncaught("register", req)
                                          ELSE Response("register", req, 201, "",
                                                        [id |-> new_id, email |-> email]))
         /\ UNCHANGED <<user_groups, password_reset_tokens, refresh_tokens, now, SMTP_HOST, catalog, inflight>>

(* ------------------------------ activate ------------------------------- *)

ActivationGeneric == "Invalid or expired activation token."

activate_user(email, token) ==
    LET req == [email |-> email, token |-> token]
        user == FindUser(email)
        Fail(detail) ==
            /\ resp' = HTTPException("activate", req, 400, detail)
            /\ UNCHANGED <<tables, next_id, now, SMTP_HOST, catalog, inflight>>
    IN
    /\ mail' = <<>>
    /\ IF user = None THEN Fail(ActivationGeneric)
       ELSE IF users[user].is_active THEN Fail("User account is already active.")
       ELSE LET rows == {r \in activation_tokens : r.user_id = user} IN
            IF rows = {} THEN Fail(ActivationGeneric)
            ELSE \E token_record \in rows :
                   IF token_record.token # token THEN Fail(ActivationGeneric)
                   ELSE IF Expired(token_record)
                   THEN /\ activation_tokens' =
                              {r \in activation_tokens : r.id # token_record.id}
                        /\ resp' = Committed(HTTPException("activate", req, 400,
                                                            ActivationGeneric))
                        /\ UNCHANGED <<users, user_groups, password_reset_tokens,
                                       refresh_tokens, next_id, now, SMTP_HOST, catalog, inflight>>
                   ELSE /\ users' = [users EXCEPT ![user].is_active = TRUE]
                        /\ activation_tokens' =
                              {r \in activation_tokens : r.id # token_record.id}
                        /\ resp' = Committed(MessageResponse("activate", req, 200,
                                        "User account activated successfully."))
                        /\ UNCHANGED <<user_groups, password_reset_tokens,
                                       refresh_tokens, next_id, now, SMTP_HOST, catalog, inflight>>

(* ------------------------ password reset request ----------------------- *)

ResetAck == "If you are registered, you will receive an email with instructions."

request_password_reset_token(email) ==
    LET req == NoBody
        user == FindUser(email)
    IN
    IF user = None \/ ~users[user].is_active
    THEN /\ resp' = MessageResponse("reset_request", req, 200, ResetAck)
         /\ mail' = <<>>
         /\ UNCHANGED <<tables, next_id, now, SMTP_HOST, catalog, inflight>>
    ELSE /\ next_id <= MaxIds
         /\ LET token_record == TokenModel(next_id, user, PasswordResetTokenDays) IN
            /\ password_reset_tokens' =
                  {r \in password_reset_tokens : r.user_id # user} \cup {token_record}
            /\ next_id' = next_id + 1
            /\ \E outcome \in SendOutcomes :
                 /\ mail' = <<send_password_reset_email(email, token_record.token, outcome)>>
                 /\ resp' = Committed(IF outcome = "raised"
                                      THEN Uncaught("reset_request", req)
                                      ELSE MessageResponse("reset_request", req, 200,
                                                           ResetAck))
         /\ UNCHANGED <<users, user_groups, activation_tokens, refresh_tokens, now, SMTP_HOST, catalog, inflight>>

(* -------------------------------- login -------------------------------- *)

\* a login that never looks at is_active
login_user_any(email, password) ==
    LET req == NoBody
        user == FindUser(email)
    IN
    /\ mail' = <<>>
    /\ IF user = None \/ ~verify_password(users[user], password)
       THEN /\ resp' = HTTPException("login", req, 401, "Invalid email or password.")
            /\ UNCHANGED <<tables, next_id, now, SMTP_HOST, catalog, inflight>>
       ELSE /\ next_id <= MaxIds
            /\ LET access_token == create_access_token([user_id |-> user])
                   refresh_token == create_refresh_token([user_id |-> user])
                   refresh_record == RefreshTokenModel_create(next_id, user,
                                                              LOGIN_TIME_DAYS, refresh_token)
               IN  /\ refresh_tokens' = refresh_tokens \cup {refresh_record}
                   /\ next_id' = next_id + 1
                   /\ resp' = Committed(Response("login", req, 201, "",
                                                 [access_token |-> access_token,
                                                  refresh_token |-> refresh_token,
                                                  token_type |-> "bearer"]))
            /\ UNCHANGED <<users, user_groups, activation_tokens,
                           password_reset_tokens, now, SMTP_HOST, catalog, inflight>>

login_user(email, password) ==
    LET req == NoBody
        user == FindUser(email)
    IN
    /\ mail' = <<>>
    /\ IF user = None \/ ~verify_password(users[user], password)
       THEN /\ resp' = HTTPException("login", req, 401, "Invalid email or password.")
            /\ UNCHANGED <<tables, next_id, now, SMTP_HOST, catalog, inflight>>
       ELSE IF ~users[user].is_active
       THEN /\ resp' = HTTPException("login", req, 403, "User account is not activated.")
            /\ UNCHANGED <<tables, next_id, now, SMTP_HOST, catalog, inflight>>
       ELSE /\ next_id <= MaxIds
            /\ LET access_token == create_access_token([user_id |-> user])
                   refresh_token == create_refresh_token([user_id |-> user])
                   refresh_record == RefreshTokenModel_create(next_id, user,
                                                              LOGIN_TIME_DAYS, refresh_token)
               IN  /\ refresh_tokens' = refresh_tokens \cup {refresh_record}
                   /\ next_id' = next_id + 1
                   /\ resp' = Committed(Response("login", req, 201, "",
                                                 [access_token |-> access_token,
                                                  refresh_token |-> refresh_token,
                                                  token_type |-> "bearer"]))
            /\ UNCHANGED <<users, user_groups, activation_tokens,
                           password_reset_tokens, now, SMTP_HOST, catalog, inflight>>

(* -------------------------------- logout ------------------------------- *)

\* a logout that deletes whatever verify_refresh_token_or_raise says
logout_user_unverified(refresh_token) ==
    LET req == [refresh_token |-> refresh_token] IN
    /\ mail' = <<>>
    /\ refresh_tokens' = {r \in refresh_tokens : r.token # refresh_token}
    /\ resp' = Committed(MessageResponse("logout", req, 200, "Logged out."))
    /\ UNCHANGED <<users, user_groups, activation_tokens,
                   password_reset_tokens, next_id, now, SMTP_HOST, catalog, inflight>>

logout_user(refresh_token) ==
    LET req == [refresh_token |-> refresh_token] IN
    /\ mail' = <<>>
    /\ IF ~refresh_token_decodes(refresh_token, now)
       THEN /\ resp' = MessageResponse("logout", req, 200, "Logged out.")
            /\ UNCHANGED <<tables, next_id, now, SMTP_HOST, catalog, inflight>>
       ELSE /\ refresh_tokens' = {r \in refresh_tokens : r.token # refresh_token}
            /\ resp' = Committed(MessageResponse("logout", req, 200, "Logged out."))
            /\ UNCHANGED <<users, user_groups, activation_tokens,
                           password_reset_tokens, next_id, now, SMTP_HOST, catalog, inflight>>

(* ------------------------------- refresh ------------------------------- *)

refresh_access_token(refresh_token) ==
    LET req == [refresh_token |-> refresh_token]
        Fail(status, detail) ==
            /\ resp' = HTTPException("refresh", req, status, detail)
            /\ UNCHANGED <<tables, next_id, now, SMTP_HOST, catalog, inflight>>
    IN
    /\ mail' = <<>>
    /\ IF ~refresh_token_decodes(refresh_token, now)
       THEN Fail(400, "Invalid or expired refresh token.")
       ELSE LET user_id == claim_get(refresh_token.claims, "user_id")
                rows == {r \in refresh_tokens : r.token = refresh_token}
            IN
            IF rows = {} THEN Fail(401, "Refresh token not found.")
            ELSE \E rt_record \in rows :
                   IF user_id \notin 1..Len(users) \/ ~users[user_id].is_active
                   THEN Fail(401, "User not found or inactive.")
                   ELSE IF Expired(rt_record)
                   THEN /\ refresh_tokens' = {r \in refresh_tokens : r.id # rt_record.id}
                        /\ resp' = Committed(HTTPException("refresh", req, 401,
                                                            "Refresh token expired."))
                        /\ UNCHANGED <<users, user_groups, activation_tokens,
                                       password_reset_tokens, next_id, now, SMTP_HOST, catalog, inflight>>
                   ELSE \* the new access token is computed and dropped: the handler
                        \* returns None, which RefreshTokenResponseSchema rejects
                        LET access_token == create_access_token([user_id |-> user_id]) IN
                        /\ resp' = Uncaught("refresh", req)
                        /\ UNCHANGED <<tables, next_id, now, SMTP_HOST, catalog, inflight>>

(* -------------------------- resend activation -------------------------- *)

ResendAck == "If the email exists and is not activated, you will receive a new activation link."

\* a resend that inserts the new row without deleting the user's earlier rows
resend_activation_token_keeps_rows(email) ==
    LET req == NoBody
        user == FindUser(email)
    IN
    IF user = None \/ users[user].is_active
    THEN /\ resp' = MessageResponse("resend", req, 200, ResendAck)
         /\ mail' = <<>>
         /\ UNCHANGED <<tables, next_id, now, SMTP_HOST, catalog, inflight>>
    ELSE /\ next_id <= MaxIds
         /\ LET token_record == TokenModel(next_id, user, ActivationTokenDays) IN
            /\ activation_tokens' = activation_tokens \cup {token_record}
            /\ next_id' = next_id + 1
            /\ \E outcome \in SendOutcomes :
                 /\ mail' = <<send_activation_email(email, token_record.token, outcome)>>
                 /\ resp' = Committed(IF outcome = "raised"
                                      THEN Uncaught("resend", req)
                                      ELSE MessageResponse("resend", req, 200, ResendAck))
         /\ UNCHANGED <<users, user_groups, password_reset_tokens, refresh_tokens,
                        now, SMTP_HOST, catalog, inflight>>

resend_activation_token(email) ==
    LET req == NoBody
        user == FindUser(email)
    IN
    IF user = None \/ users[user].is_active
    THEN /\ resp' = MessageResponse("resend", req, 200, ResendAck)
         /\ mail' = <<>>
         /\ UNCHANGED <<tables, next_id, now, SMTP_HOST, catalog, inflight>>
    ELSE /\ next_id <= MaxIds
         /\ LET token_record == TokenModel(next_id, user, ActivationTokenDays) IN
            /\ activation_tokens' =
                  {r \in activation_tokens : r.user_id # user} \cup {token_record}
            /\ next_id' = next_id + 1
            /\ \E outcome \in SendOutcomes :
                 /\ mail' = <<send_activation_email(email, token_record.token, outcome)>>
                 /\ resp' = Committed(IF outcome = "raised"
                                      THEN Uncaught("resend", req)
                                      ELSE MessageResponse("resend", req, 200, ResendAck))
         /\ UNCHANGED <<users, user_groups, password_reset_tokens, refresh_tokens,
                        now, SMTP_HOST, catalog, inflight>>

(* --------------------------- change password --------------------------- *)

\* token: the bearer token get_current_user receives
change_password(token, old_password, new_password) ==
    LET req == [token |-> token, old_password |-> old_password,
                new_password |-> new_password]
        user == get_current_user(token)
    IN
    /\ mail' = <<>>
    /\ IF user = None
       THEN /\ resp' = HTTPException("change_password", req, 401,
                                     "Could not validate credentials")
            /\ UNCHANGED <<tables, next_id, now, SMTP_HOST, catalog, inflight>>
       ELSE IF user = AttributeError
       THEN /\ resp' = Uncaught("change_password", req)
            /\ UNCHANGED <<tables, next_id, now, SMTP_HOST, catalog, inflight>>
       ELSE IF ~verify_password(users[user], old_password)
       THEN /\ resp' = HTTPException("change_password", req, 400,
                                     "Old password is incorrect.")
            /\ UNCHANGED <<tables, next_id, now, SMTP_HOST, catalog, inflight>>
       ELSE /\ users' = [users EXCEPT ![user].password = hash_password(new_password)]
            /\ resp' = Committed(MessageResponse("change_password", req, 200,
                                                 "Password changed successfully."))
            /\ UNCHANGED <<user_groups, activation_tokens, password_reset_tokens,
                           refresh_tokens, next_id, now, SMTP_HOST, catalog, inflight>>

(* ---------------------------- reset password --------------------------- *)

ResetInvalid == "Invalid email or token."

\* a reset that keeps the row after a wrong token
reset_password_complete_keeps_row(email, token, password) ==
    LET req == [email |-> email, token |-> token, password |-> password]
        user == FindUser(email)
    IN
    /\ mail' = <<>>
    /\ IF user = None \/ ~users[user].is_active
       THEN /\ resp' = HTTPException("reset_complete", req, 400, ResetInvalid)
            /\ UNCHANGED <<tables, next_id, now, SMTP_HOST, catalog, inflight>>
       ELSE IF {r \in password_reset_tokens : r.user_id = user} = {}
       THEN /\ resp' = HTTPException("reset_complete", req, 400, ResetInvalid)
            /\ UNCHANGED <<tables, next_id, now, SMTP_HOST, catalog, inflight>>
       ELSE \E token_record \in {r \in password_reset_tokens : r.user_id = user} :
              IF token_record.token # token
              THEN /\ resp' = HTTPException("reset_complete", req, 400, ResetInvalid)
                   /\ UNCHANGED <<tables, next_id, now, SMTP_HOST, catalog, inflight>>
              ELSE IF Expired(token_record)
              THEN /\ password_reset_tokens' =
                         {r \in password_reset_tokens : r.id # token_record.id}
                   /\ resp' = Committed(HTTPException("reset_complete", req, 400,
                                                      ResetInvalid))
                   /\ UNCHANGED <<users, user_groups, activation_tokens, refresh_tokens,
                                  next_id, now, SMTP_HOST, catalog, inflight>>
              ELSE /\ users' = [users EXCEPT ![user].password = hash_password(password)]
                   /\ password_reset_tokens' =
                         {r \in password_reset_tokens : r.id # token_record.id}
                   /\ resp' = Committed(MessageResponse("reset_complete", req, 200,
                                                        "Password reset successfully."))
                   /\ UNCHANGED <<user_groups, activation_tokens, refresh_tokens,
                                  next_id, now, SMTP_HOST, catalog, inflight>>

\* a reset that leaves the row in place after it was used
reset_password_complete_reusable(email, token, password) ==
    LET req == [email |-> email, token |-> token, password |-> password]
        user == FindUser(email)
    IN
    /\ mail' = <<>>
    /\ IF user = None \/ ~users[user].is_active
       THEN /\ resp' = HTTPException("reset_complete", req, 400, ResetInvalid)
            /\ UNCHANGED <<tables, next_id, now, SMTP_HOST, catalog, inflight>>
       ELSE IF {r \in password_reset_tokens : r.user_id = user} = {}
       THEN /\ resp' = HTTPException("reset_complete", req, 400, ResetInvalid)
            /\ UNCHANGED <<tables, next_id, now, SMTP_HOST, catalog, inflight>>
       ELSE \E token_record \in {r \in password_reset_tokens : r.user_id = user} :
              IF token_record.token # token \/ Expired(token_record)
              THEN /\ password_reset_tokens' =
                         {r \in password_reset_tokens : r.id # token_record.id}
                   /\ resp' = Committed(HTTPException("reset_complete", req, 400,
                                                      ResetInvalid))
                   /\ UNCHANGED <<users, user_groups, activation_tokens, refresh_tokens,
                                  next_id, now, SMTP_HOST, catalog, inflight>>
              ELSE /\ users' = [users EXCEPT ![user].password = hash_password(password)]
                   /\ resp' = Committed(MessageResponse("reset_complete", req, 200,
                                                        "Password reset successfully."))
                   /\ UNCHANGED <<user_groups, activation_tokens, password_reset_tokens,
                                  refresh_tokens, next_id, now, SMTP_HOST, catalog, inflight>>

\* token_record: the row `.scalars().first()` returns among the user's rows
reset_password_complete(email, token, password) ==
    LET req == [email |-> email, token |-> token, password |-> password]
        user == FindUser(email)
    IN
    /\ mail' = <<>>
    /\ IF user = None \/ ~users[user].is_active
       THEN /\ resp' = HTTPException("reset_complete", req, 400, ResetInvalid)
            /\ UNCHANGED <<tables, next_id, now, SMTP_HOST, catalog, inflight>>
       ELSE IF {r \in password_reset_tokens : r.user_id = user} = {}
       THEN /\ resp' = HTTPException("reset_complete", req, 400, ResetInvalid)
            /\ UNCHANGED <<tables, next_id, now, SMTP_HOST, catalog, inflight>>
       ELSE \E token_record \in {r \in password_reset_tokens : r.user_id = user} :
              IF token_record.token # token
              THEN /\ password_reset_tokens' =
                         {r \in password_reset_tokens : r.id # token_record.id}
                   /\ resp' = Committed(HTTPException("reset_complete", req, 400,
                                                      ResetInvalid))
                   /\ UNCHANGED <<users, user_groups, activation_tokens, refresh_tokens,
                                  next_id, now, SMTP_HOST, catalog, inflight>>
              ELSE IF Expired(token_record)
              THEN /\ password_reset_tokens' =
                         {r \in password_reset_tokens : r.id # token_record.id}
                   /\ resp' = Committed(HTTPException("reset_complete", req, 400,
                                                      ResetInvalid))
                   /\ UNCHANGED <<users, user_groups, activation_tokens, refresh_tokens,
                                  next_id, now, SMTP_HOST, catalog, inflight>>
              ELSE /\ users' = [users EXCEPT ![user].password = hash_password(password)]
                   /\ password_reset_tokens' =
                         {r \in password_reset_tokens : r.id # token_record.id}
                   /\ resp' = Committed(MessageResponse("reset_complete", req, 200,
                                                        "Password reset successfully."))
                   /\ UNCHANGED <<user_groups, activation_tokens, refresh_tokens,
                                  next_id, now, SMTP_HOST, catalog, inflight>>

(* ------------------------------- cleanup ------------------------------- *)

\* the Celery task: one session, three deletes, one commit
cleanup_expired_tokens ==
    LET dead(table) == {r \in table : Expired(r)}
        total == Cardinality(dead(activation_tokens))
                 + Cardinality(dead(password_reset_tokens))
                 + Cardinality(dead(refresh_tokens))
    IN
    /\ activation_tokens' = activation_tokens \ dead(activation_tokens)
    /\ password_reset_tokens' = password_reset_tokens \ dead(password_reset_tokens)
    /\ refresh_tokens' = refresh_tokens \ dead(refresh_tokens)
    /\ resp' = Committed(Response("cleanup", NoBody, 0, "", [total |-> total]))
    /\ mail' = <<>>
    /\ UNCHANGED <<users, user_groups, next_id, now, SMTP_HOST, catalog, inflight>>

(* -------------------------------- clock -------------------------------- *)

Instants == (0..ActivationTokenDays) \cup (LOGIN_TIME_DAYS..(LOGIN_TIME_DAYS + MaxLate))

Tick ==
    /\ \E t \in Instants : t > now /\ now' = t
    /\ UNCHANGED <<tables, next_id, SMTP_HOST, catalog, inflight, mail, resp>>

\* the clock up to the instant a password reset token expires
TickReset ==
    /\ \E t \in 0..PasswordResetTokenDays : t > now /\ now' = t
    /\ UNCHANGED <<tables, next_id, SMTP_HOST, catalog, inflight, mail, resp>>

(* ------------------------------- the spec ------------------------------ *)

\* token strings a client can present to activate: every string issued so far,
\* and one that was never issued
IssuedStrings == 0..(next_id - 1)

\* JWTs a client can present: those of the persisted rows, those the last
\* response or request carried, and one nobody signed
PresentableTokens ==
    {r.token : r \in refresh_tokens}
    \cup (IF resp.op = "login" /\ resp.status = 201
          THEN {resp.body.access_token, resp.body.refresh_token} ELSE {})
    \cup (IF resp.op \in {"logout", "refresh"} THEN {resp.req.refresh_token} ELSE {})
    \cup {MalformedToken}

\* bearer tokens a client can present: the access token of the last login, one
\* nobody signed, and tokens signed with the key of get_current_user, which is
\* a literal of the source and carries a "sub" claim that no endpoint issues
BearerTokens ==
    (IF resp.op = "login" /\ resp.status = 201 THEN {resp.body.access_token} ELSE {})
    \cup {MalformedToken}
    \cup {[key |-> SECRET_KEY, alg |-> ALGORITHM, claims |-> [sub |-> user_id],
           exp |-> LOGIN_TIME_DAYS + MaxLate] : user_id \in 1..Len(users)}

Next ==
    \/ \E email \in Emails, password \in RegisterPasswords : register_user(email, password)
    \/ \E email \in Emails, token \in IssuedStrings : activate_user(email, token)
    \/ \E email \in Emails : request_password_reset_token(email)
    \/ \E email \in Emails, password \in Passwords : login_user(email, password)
    \/ \E token \in PresentableTokens : logout_user(token)
    \/ \E token \in PresentableTokens : refresh_access_token(token)
    \/ \E email \in Emails : resend_activation_token(email)
    \/ cleanup_expired_tokens
    \/ Tick

Spec == Init /\ [][Next]_vars

\* the password life cycle: registration, activation, login, and the three
\* handlers that read or write users.password and password_reset_tokens
NextPassword ==
    \/ \E email \in Emails, password \in RegisterPasswords : register_user(email, password)
    \/ \E email \in Emails, token \in IssuedStrings : activate_user(email, token)
    \/ \E email \in Emails : request_password_reset_token(email)
    \/ \E email \in Emails, token \in IssuedStrings, password \in Passwords :
          reset_password_complete(email, token, password)
    \/ \E token \in BearerTokens, old_password \in Passwords, new_password \in Passwords :
          change_password(token, old_password, new_password)
    \/ \E email \in Emails, password \in Passwords : login_user(email, password)
    \/ TickReset

\* the deployment of the default settings: the user group is seeded, no SMTP host
InitPassword ==
    /\ Init
    /\ user_groups = {UserGroupEnum_USER}
    /\ SMTP_HOST = NoHost

SpecPassword == InitPassword /\ [][NextPassword]_vars

(* =============================== movies ================================ *)

\* an Optional query parameter: <<>> when the request omits it, <<v>> when given
Absent == <<>>

\* Python truth value of an Optional number: None and 0 are falsy
truthy(param) == param # Absent /\ param[1] # 0

\* Python truth value of an Optional string: None and "" are falsy
truthy_str(param) == param # Absent /\ param[1] # <<>>

\* strings that take part in the search are sequences of characters
lower_char(c) == IF c = "A" THEN "a" ELSE IF c = "B" THEN "b" ELSE c

\* str.lower() and SQL lower()
lower(s) == [i \in DOMAIN s |-> lower_char(s[i])]

RECURSIVE like(_, _)
\* SQL `text LIKE pattern`: % stands for any run of characters, _ for any one
like(text, pattern) ==
    IF pattern = <<>> THEN text = <<>>
    ELSE IF Head(pattern) = "%"
    THEN like(text, Tail(pattern)) \/ (text # <<>> /\ like(Tail(text), pattern))
    ELSE IF text = <<>> THEN FALSE
    ELSE /\ Head(pattern) = "_" \/ Head(pattern) = Head(text)
         /\ like(Tail(text), Tail(pattern))

\* the rows of the join movies x stars x directors (outer joins) that pass the
\* or_ of the four LIKE conditions, for one movie
search_rows(movie, search_term) ==
    LET stars == IF movie.stars = {} THEN {<<>>} ELSE {<<n>> : n \in movie.stars}
        directors == IF movie.directors = {} THEN {<<>>}
                     ELSE {<<n>> : n \in movie.directors}
    IN  {<<star, director>> \in stars \X directors :
            \/ like(lower(movie.name), search_term)
            \/ like(lower(movie.description), search_term)
            \/ (star # <<>> /\ like(lower(star[1]), search_term))
            \/ (director # <<>> /\ like(lower(director[1]), search_term))}

\* a selection with the filters tested against None instead of by truth value
select_movies_is_not_none(scope, q) ==
    {id \in scope :
        /\ q.year # Absent => movies[id].year = q.year[1]
        /\ q.min_imdb # Absent => movies[id].imdb >= q.min_imdb[1]
        /\ q.max_price # Absent => movies[id].price <= q.max_price[1]
        /\ truthy_str(q.search) =>
              search_rows(movies[id], <<"%">> \o lower(q.search[1]) \o <<"%">>) # {}}

\* the where clauses of get_movies and get_favorite_movies: the movie ids of
\* `scope` that the statement selects (after DISTINCT)
select_movies(scope, q) ==
    {id \in scope :
        /\ truthy(q.year) => movies[id].year = q.year[1]
        /\ truthy(q.min_imdb) => movies[id].imdb >= q.min_imdb[1]
        /\ truthy(q.max_price) => movies[id].price <= q.max_price[1]
        /\ truthy_str(q.search) =>
              search_rows(movies[id], <<"%">> \o lower(q.search[1]) \o <<"%">>) # {}}

\* getattr(MovieModel, sort_by) of a row
sort_column(id, sort_by) ==
    CASE sort_by = "year" -> movies[id].year
      [] sort_by = "price" -> movies[id].price
      [] sort_by = "imdb" -> movies[id].imdb
      [] sort_by = "votes" -> movies[id].votes

\* ORDER BY with the direction left out: any order of the rows
order_by_any(ids, sort_by) ==
    {s \in [1..Cardinality(ids) -> ids] : \A i, j \in DOMAIN s : i # j => s[i] # s[j]}

\* ORDER BY sort_column DESC: the orders the database may return the rows in
\* (rows with equal values come in any order)
order_by_desc(ids, sort_by) ==
    {s \in [1..Cardinality(ids) -> ids] :
        /\ \A i, j \in DOMAIN s : i # j => s[i] # s[j]
        /\ \A i, j \in DOMAIN s :
              i < j => sort_column(s[i], sort_by) >= sort_column(s[j], sort_by)}

\* ceil(total / size) if total else 1
pages_of(total, size) == IF total # 0 THEN (total + size - 1) \div size ELSE 1

\* MovieListItemSchema.model_validate(m)
MovieListItemSchema(id) ==
    [id |-> id, uuid |-> <<"uuid", id>>, name |-> movies[id].name,
     year |-> movies[id].year, imdb |-> movies[id].imdb, price |-> movies[id].price]

\* .offset((page - 1) * size).limit(size) of the ordered rows
offset_limit(rows, page, size) ==
    LET first == (page - 1) * size + 1
        last == IF page * size < Len(rows) THEN page * size ELSE Len(rows)
    IN  [i \in 1..(IF last >= first THEN last - first + 1 ELSE 0) |-> rows[first + i - 1]]

\* MovieListResponseSchema(items, total, page, pages) for one order of the rows
MovieListResponse(op, q, selected, rows) ==
    LET total == Cardinality(selected)
        page_rows == offset_limit(rows, q.page, q.size)
    IN  Response(op, q, 200, "",
                 [items |-> [i \in DOMAIN page_rows |-> MovieListItemSchema(page_rows[i])],
                  total |-> total, page |-> q.page, pages |-> pages_of(total, q.size)])

MovieIds == DOMAIN movies

get_movies(q) ==
    LET selected == select_movies(MovieIds, q) IN
    /\ \E rows \in order_by_desc(selected, q.sort_by) :
          resp' = MovieListResponse("get_movies", q, selected, rows)
    /\ mail' = <<>>
    /\ UNCHANGED <<tables, next_id, now, SMTP_HOST, catalog, inflight>>

\* token: the bearer token get_current_user receives
get_favorite_movies(token, q) ==
    LET user == get_current_user(token) IN
    /\ mail' = <<>>
    /\ UNCHANGED <<tables, next_id, now, SMTP_HOST, catalog, inflight>>
    /\ IF user = None
       THEN resp' = HTTPException("get_favorite_movies", q, 401,
                                  "Could not validate credentials")
       ELSE IF user = AttributeError
       THEN resp' = Uncaught("get_favorite_movies", q)
       ELSE LET joined == {id \in MovieIds : <<user, id>> \in user_favorites}
                selected == select_movies(joined, q)
            IN  \E rows \in order_by_desc(selected, q.sort_by) :
                   resp' = MovieListResponse("get_favorite_movies", q, selected, rows)

(* --------------------- the catalogue and its queries ------------------- *)

\* most movies of a catalogue, highest page and largest page size requested
MaxMovies == 2
MaxPage == 2
MaxSize == 2

\* rows the catalogue is drawn from (name, year and time make a row unique)
Pool ==
    << [name |-> <<"A", "b">>, description |-> <<"c">>, year |-> 2000, imdb |-> 9,
        votes |-> 10, price |-> 0, stars |-> {}, directors |-> {}],
       [name |-> <<"c">>, description |-> <<"c">>, year |-> 2010, imdb |-> 5,
        votes |-> 10, price |-> 5, stars |-> {<<"a", "b">>, <<"B">>},
        directors |-> {<<"a">>}],
       [name |-> <<"c", "c">>, description |-> <<"c">>, year |-> 2010, imdb |-> 0,
        votes |-> 0, price |-> 9, stars |-> {<<"a">>}, directors |-> {}],
       [name |-> <<"c">>, description |-> <<"A", "b">>, year |-> 2000, imdb |-> 5,
        votes |-> 3, price |-> 0, stars |-> {}, directors |-> {<<"a", "b">>}] >>

\* the rows of Pool at the positions of S, in order: movies[id] for id = 1, 2, ...
Pick(S) ==
    LET f[i \in 0..Len(Pool)] ==
          IF i = 0 THEN <<>>
          ELSE IF i \in S THEN Append(f[i - 1], Pool[i]) ELSE f[i - 1]
    IN  f[Len(Pool)]

Catalogues == {Pick(S) : S \in {T \in SUBSET (1..Len(Pool)) : Cardinality(T) <= MaxMovies}}

SearchTerms == {<<>>, <<"B">>, <<"_">>}

Queries ==
    [page : 1..MaxPage, size : 1..MaxSize,
     year : {Absent, <<0>>, <<2000>>},
     min_imdb : {Absent, <<0>>, <<5>>},
     max_price : {Absent, <<0>>, <<5>>},
     search : {Absent} \cup {<<term>> : term \in SearchTerms},
     sort_by : {"year", "price", "imdb", "votes"}]

\* two users who registered and activated their accounts, no token row left
InitActiveUsers ==
    /\ users = <<[UserModel_create("ann@x.io", "pw1", 1) EXCEPT !.is_active = TRUE],
                 [UserModel_create("bob@x.io", "pw1", 1) EXCEPT !.is_active = TRUE]>>
    /\ user_groups = {UserGroupEnum_USER}
    /\ activation_tokens = {}
    /\ password_reset_tokens = {}
    /\ refresh_tokens = {}
    /\ next_id = 3
    /\ now = 0
    /\ SMTP_HOST = NoHost
    /\ inflight = {}
    /\ mail = <<>>
    /\ resp = Response("none", NoBody, 0, "", NoBody)

\* a catalogue, a listing request, and favourites: the first user has every
\* movie, or the two users share the movies between them
InitCatalog ==
    /\ InitActiveUsers
    /\ movies \in Catalogues
    /\ user_favorites \in {{<<1, id>> : id \in DOMAIN movies},
                           {<<1 + (id % 2), id>> : id \in DOMAIN movies}}
    /\ query \in Queries

NextCatalog ==
    \/ get_movies(query)
    \/ \E token \in BearerTokens : get_favorite_movies(token, query)

SpecCatalog == InitCatalog /\ [][NextCatalog]_vars

(* ------------------------------ favourites ----------------------------- *)

\* MovieDetailSchema.model_validate(movie), for the columns the catalogue carries
MovieDetailSchema(id) ==
    [id |-> id, uuid |-> <<"uuid", id>>, name |-> movies[id].name,
     year |-> movies[id].year, imdb |-> movies[id].imdb, votes |-> movies[id].votes,
     description |-> movies[id].description, price |-> movies[id].price,
     directors |-> movies[id].directors, stars |-> movies[id].stars]

get_movie(movie_id) ==
    LET req == [movie_id |-> movie_id] IN
    /\ mail' = <<>>
    /\ UNCHANGED <<tables, next_id, now, SMTP_HOST, catalog, inflight>>
    /\ IF movie_id \notin MovieIds
       THEN resp' = HTTPException("get_movie", req, 404, "Movie not found")
       ELSE resp' = Response("get_movie", req, 200, "", MovieDetailSchema(movie_id))

\* token: the bearer token get_current_user receives
add_to_favorites(token, movie_id) ==
    LET req == [token |-> token, movie_id |-> movie_id]
        user == get_current_user(token)
    IN
    /\ mail' = <<>>
    /\ UNCHANGED <<tables, next_id, now, SMTP_HOST, movies, query, inflight>>
    /\ IF user = None
       THEN /\ resp' = HTTPException("add_to_favorites", req, 401,
                                     "Could not validate credentials")
            /\ UNCHANGED user_favorites
       ELSE IF user = AttributeError
       THEN /\ resp' = Uncaught("add_to_favorites", req)
            /\ UNCHANGED user_favorites
       ELSE IF movie_id \notin MovieIds
       THEN /\ resp' = HTTPException("add_to_favorites", req, 404, "Movie not found")
            /\ UNCHANGED user_favorites
       ELSE /\ user_favorites' =
                  IF <<user, movie_id>> \notin user_favorites
                  THEN user_favorites \cup {<<user, movie_id>>}
                  ELSE user_favorites
            /\ resp' = Committed(MessageResponse("add_to_favorites", req, 200,
                                                 "Added to favorites"))

remove_from_favorites(token, movie_id) ==
    LET req == [token |-> token, movie_id |-> movie_id]
        user == get_current_user(token)
    IN
    /\ mail' = <<>>
    /\ UNCHANGED <<tables, next_id, now, SMTP_HOST, movies, query, inflight>>
    /\ IF user = None
       THEN /\ resp' = HTTPException("remove_from_favorites", req, 401,
                                     "Could not validate credentials")
            /\ UNCHANGED user_favorites
       ELSE IF user = AttributeError
       THEN /\ resp' = Uncaught("remove_from_favorites", req)
            /\ UNCHANGED user_favorites
       ELSE IF movie_id \notin MovieIds
       THEN /\ resp' = HTTPException("remove_from_favorites", req, 404, "Movie not found")
            /\ UNCHANGED user_favorites
       ELSE IF <<user, movie_id>> \in user_favorites
       THEN /\ user_favorites' = user_favorites \ {<<user, movie_id>>}
            /\ resp' = Committed(MessageResponse("remove_from_favorites", req, 200,
                                                 "Removed from favorites"))
       ELSE /\ resp' = MessageResponse("remove_from_favorites", req, 200,
                                       "Removed from favorites")
            /\ UNCHANGED user_favorites

(* -------------------------------- routing ------------------------------ *)

\* the routes of the router in the order the decorators register them; a path
\* is the sequence of its segments after the prefix /movies
routes ==
    << [method |-> "GET", path |-> <<"genres">>, endpoint |-> "list_genres_with_counts"],
       [method |-> "GET", path |-> <<>>, endpoint |-> "get_movies"],
       [method |-> "GET", path |-> <<"{movie_id}">>, endpoint |-> "get_movie"],
       [method |-> "GET", path |-> <<"favorites">>, endpoint |-> "get_favorite_movies"],
       [method |-> "POST", path |-> <<"{movie_id}", "favorite">>,
        endpoint |-> "add_to_favorites"],
       [method |-> "DELETE", path |-> <<"{movie_id}", "favorite">>,
        endpoint |-> "remove_from_favorites"] >>

\* a route matches a request: same method, and every segment equal to the
\* route's or standing in the place of a path parameter
route_matches(route, method, path) ==
    /\ route.method = method
    /\ Len(route.path) = Len(path)
    /\ \A i \in DOMAIN path : route.path[i] = "{movie_id}" \/ route.path[i] = path[i]

\* the endpoint of the first route that matches, as the router picks it
dispatch(method, path) ==
    LET hits == {i \in DOMAIN routes : route_matches(routes[i], method, path)} IN
    IF hits = {} THEN "Not Found"
    ELSE routes[CHOOSE i \in hits : \A k \in hits : i <= k].endpoint

\* decimal numerals of the movie ids a path can carry
Numerals == <<"1", "2", "3", "4", "5">>

\* int(segment) of the `movie_id: int` parameter, None when it does not parse
int(segment) ==
    IF \E i \in DOMAIN Numerals : Numerals[i] = segment
    THEN CHOOSE i \in DOMAIN Numerals : Numerals[i] = segment
    ELSE None

\* the 422 of a path parameter that is not an integer
RequestValidationError(op, path) ==
    HTTPException(op, [path |-> path], 422, "int_parsing")

\* one HTTP request to the router: method, path below /movies, bearer token
http_request(method, path, token) ==
    LET endpoint == dispatch(method, path)
        movie_id == int(path[1])
        invalid(op) == /\ resp' = RequestValidationError(op, path)
                       /\ mail' = <<>>
                       /\ UNCHANGED <<tables, next_id, now, SMTP_HOST, catalog, inflight>>
    IN
    CASE endpoint = "get_movies" -> get_movies(query)
      [] endpoint = "get_favorite_movies" -> get_favorite_movies(token, query)
      [] endpoint = "get_movie" ->
            IF movie_id = None THEN invalid("get_movie") ELSE get_movie(movie_id)
      [] endpoint = "add_to_favorites" ->
            IF movie_id = None THEN invalid("add_to_favorites")
            ELSE add_to_favorites(token, movie_id)
      [] endpoint = "remove_from_favorites" ->
            IF movie_id = None THEN invalid("remove_from_favorites")
            ELSE remove_from_favorites(token, movie_id)
      [] endpoint = "Not Found" ->
            /\ resp' = HTTPException("Not Found", [path |-> path], 404, "Not Found")
            /\ mail' = <<>>
            /\ UNCHANGED <<tables, next_id, now, SMTP_HOST, catalog, inflight>>

\* page, size and sort_by as Query(...) defaults them, no filter
DefaultQuery ==
    [page |-> 1, size |-> 10, year |-> Absent, min_imdb |-> Absent,
     max_price |-> Absent, search |-> Absent, sort_by |-> "year"]

\* two active users, a catalogue of up to MaxMovies movies, no favourite yet
InitFavorites ==
    /\ InitActiveUsers
    /\ movies \in Catalogues
    /\ user_favorites = {}
    /\ query = DefaultQuery

\* paths requested: the list, the favourites, each movie and one id past the last
RequestPaths ==
    {<<>>, <<"favorites">>, <<"favorites", "favorite">>}
    \cup {<<Numerals[id]>> : id \in 1..(MaxMovies + 1)}
    \cup {<<Numerals[id], "favorite">> : id \in 1..(MaxMovies + 1)}

NextFavorites ==
    \E method \in {"GET", "POST", "DELETE"}, path \in RequestPaths, token \in BearerTokens :
       http_request(method, path, token)

SpecFavorites == InitFavorites /\ [][NextFavorites]_vars

(* --------------------- the authenticated endpoints --------------------- *)

\* one user who activated and one who registered and did not: the state after
\* two register_user calls and one activate_user call
InitTwoUsers ==
    /\ now = 0
    /\ users = <<[UserModel_create("ann@x.io", "pw1", 1) EXCEPT !.is_active = TRUE],
                 UserModel_create("bob@x.io", "pw1", 1)>>
    /\ user_groups = {UserGroupEnum_USER}
    /\ activation_tokens = {TokenModel(2, 2, ActivationTokenDays)}
    /\ password_reset_tokens = {}
    /\ refresh_tokens = {}
    /\ next_id = 3
    /\ SMTP_HOST = NoHost
    /\ inflight = {}
    /\ mail = <<>>
    /\ resp = Response("none", NoBody, 0, "", NoBody)

InitAuth ==
    /\ InitTwoUsers
    /\ movies = Pick({1})
    /\ user_favorites = {}
    /\ query = DefaultQuery

\* what a client can put in the Authorization header: a token carrying the
\* secret and "sub" of get_current_user for each user and for an id no user has,
\* one without "sub", one signed with another key, one of another algorithm,
\* one that expires after the first instant, and one nobody signed
AuthTokens ==
    BearerTokens
    \cup {[key |-> SECRET_KEY, alg |-> ALGORITHM, claims |-> [sub |-> Len(users) + 1],
           exp |-> LOGIN_TIME_DAYS + MaxLate],
          [key |-> SECRET_KEY, alg |-> ALGORITHM, claims |-> [user_id |-> 1],
           exp |-> LOGIN_TIME_DAYS + MaxLate],
          [key |-> SECRET_KEY_ACCESS, alg |-> ALGORITHM, claims |-> [sub |-> 1],
           exp |-> LOGIN_TIME_DAYS + MaxLate],
          [key |-> SECRET_KEY, alg |-> "none", claims |-> [sub |-> 1],
           exp |-> LOGIN_TIME_DAYS + MaxLate],
          [key |-> SECRET_KEY, alg |-> ALGORITHM, claims |-> [sub |-> 1], exp |-> 0]}

NextAuth ==
    \/ \E email \in Emails, token \in IssuedStrings : activate_user(email, token)
    \/ \E token \in AuthTokens, old_password \in Passwords, new_password \in Passwords :
         change_password(token, old_password, new_password)
    \/ \E token \in AuthTokens, movie_id \in 1..(Len(movies) + 1) :
         add_to_favorites(token, movie_id)
    \/ \E token \in AuthTokens, movie_id \in 1..(Len(movies) + 1) :
         remove_from_favorites(token, movie_id)
    \/ \E token \in AuthTokens : get_favorite_movies(token, query)
    \/ TickReset

SpecAuth == InitAuth /\ [][NextAuth]_vars

(* ------------------- requests that overlap in time --------------------- *)

\* requests the server handles at the same time
MaxRequests == 2

\* row ids the overlapping requests can take: two rounds of MaxRequests rows
MaxRaceIds == MaxIds + 2 * MaxRequests

\* the request of a handler suspended at `await db.commit()`
Suspended(request) == {r \in inflight : r.request = request}

\* resend_activation_token up to its commit: the select of the user and, for an
\* inactive user, the delete by user_id inside the request's own transaction.
\* The transaction sees the rows committed when the statement runs; what it
\* deleted is not visible to other sessions before the commit
resend_delete(request, email) ==
    LET user == FindUser(email) IN
    /\ Suspended(request) = {}
    /\ IF user = None \/ users[user].is_active
       THEN resend_activation_token(email)
       ELSE /\ inflight' = inflight \cup
                  {[request |-> request, op |-> "resend", email |-> email, user |-> user,
                    deleted |-> {r \in activation_tokens : r.user_id = user}]}
            /\ UNCHANGED <<tables, next_id, now, SMTP_HOST, catalog, mail, resp>>

\* a commit that runs the delete again on the rows committed by then, as if the
\* requests were serialized
resend_commit_serialized(request) ==
    \E r \in Suspended(request) :
       /\ r.op = "resend"
       /\ next_id <= MaxRaceIds
       /\ LET token_record == TokenModel(next_id, r.user, ActivationTokenDays) IN
          /\ activation_tokens' =
                {row \in activation_tokens : row.user_id # r.user} \cup {token_record}
          /\ next_id' = next_id + 1
          /\ \E outcome \in SendOutcomes :
               /\ mail' = <<send_activation_email(r.email, token_record.token, outcome)>>
               /\ resp' = Committed(IF outcome = "raised"
                                    THEN Uncaught("resend", NoBody)
                                    ELSE MessageResponse("resend", NoBody, 200, ResendAck))
       /\ inflight' = inflight \ {r}
       /\ UNCHANGED <<users, user_groups, password_reset_tokens, refresh_tokens,
                      now, SMTP_HOST, catalog>>

\* resend_activation_token from db.add to its return: the commit removes the
\* rows the delete statement saw and inserts the new row, then the email is sent
resend_commit(request) ==
    \E r \in Suspended(request) :
       /\ r.op = "resend"
       /\ next_id <= MaxRaceIds
       /\ LET token_record == TokenModel(next_id, r.user, ActivationTokenDays) IN
          /\ activation_tokens' = (activation_tokens \ r.deleted) \cup {token_record}
          /\ next_id' = next_id + 1
          /\ \E outcome \in SendOutcomes :
               /\ mail' = <<send_activation_email(r.email, token_record.token, outcome)>>
               /\ resp' = Committed(IF outcome = "raised"
                                    THEN Uncaught("resend", NoBody)
                                    ELSE MessageResponse("resend", NoBody, 200, ResendAck))
       /\ inflight' = inflight \ {r}
       /\ UNCHANGED <<users, user_groups, password_reset_tokens, refresh_tokens,
                      now, SMTP_HOST, catalog>>

\* request_password_reset_token up to its commit
reset_request_delete(request, email) ==
    LET user == FindUser(email) IN
    /\ Suspended(request) = {}
    /\ IF user = None \/ ~users[user].is_active
       THEN request_password_reset_token(email)
       ELSE /\ inflight' = inflight \cup
                  {[request |-> request, op |-> "reset_request", email |-> email,
                    user |-> user,
                    deleted |-> {r \in password_reset_tokens : r.user_id = user}]}
            /\ UNCHANGED <<tables, next_id, now, SMTP_HOST, catalog, mail, resp>>

\* request_password_reset_token from db.add to its return
reset_request_commit(request) ==
    \E r \in Suspended(request) :
       /\ r.op = "reset_request"
       /\ next_id <= MaxRaceIds
       /\ LET token_record == TokenModel(next_id, r.user, PasswordResetTokenDays) IN
          /\ password_reset_tokens' =
                (password_reset_tokens \ r.deleted) \cup {token_record}
          /\ next_id' = next_id + 1
          /\ \E outcome \in SendOutcomes :
               /\ mail' = <<send_password_reset_email(r.email, token_record.token, outcome)>>
               /\ resp' = Committed(IF outcome = "raised"
                                    THEN Uncaught("reset_request", NoBody)
                                    ELSE MessageResponse("reset_request", NoBody, 200,
                                                         ResetAck))
       /\ inflight' = inflight \ {r}
       /\ UNCHANGED <<users, user_groups, activation_tokens, refresh_tokens,
                      now, SMTP_HOST, catalog>>

\* an active user and an inactive one, no request in flight
InitRace ==
    /\ InitTwoUsers
    /\ movies = <<>>
    /\ user_favorites = {}
    /\ query = NoBody

NextRace ==
    \/ \E request \in 1..MaxRequests, email \in Emails : resend_delete(request, email)
    \/ \E request \in 1..MaxRequests : resend_commit(request)
    \/ \E request \in 1..MaxRequests, email \in Emails : reset_request_delete(request, email)
    \/ \E request \in 1..MaxRequests : reset_request_commit(request)

SpecRace == InitRace /\ [][NextRace]_vars

(* ------------------------- every covered operation --------------------- *)

\* the deployment of the default settings; no movie in the catalogue
InitAll == InitPassword

\* requests handled one at a time, the cleanup task and the clock in between
NextAll ==
    \/ \E email \in Emails, password \in RegisterPasswords : register_user(email, password)
    \/ \E email \in Emails, token \in IssuedStrings : activate_user(email, token)
    \/ \E email \in Emails : resend_activation_token(email)
    \/ \E email \in Emails : request_password_reset_token(email)
    \/ \E email \in Emails, token \in IssuedStrings, password \in NewPasswords :
          reset_password_complete(email, token, password)
    \/ \E token \in BearerTokens, old_password \in Passwords, new_password \in NewPasswords :
          change_password(token, old_password, new_password)
    \/ \E email \in Emails, password \in Passwords : login_user(email, password)
    \/ \E token \in PresentableTokens : logout_user(token)
    \/ \E token \in PresentableTokens : refresh_access_token(token)
    \/ \E token \in BearerTokens, movie_id \in 1..(Len(movies) + 1) :
          add_to_favorites(token, movie_id)
    \/ \E token \in BearerTokens, movie_id \in 1..(Len(movies) + 1) :
          remove_from_favorites(token, movie_id)
    \/ cleanup_expired_tokens
    \/ Tick

SpecAll == InitAll /\ [][NextAll]_vars

(* ------------------------ a deployment that sends ---------------------- *)

\* the user group is seeded and an SMTP host is configured
InitMail ==
    /\ Init
    /\ user_groups = {UserGroupEnum_USER}
    /\ SMTP_HOST # NoHost

\* the three requests that send an email and the two that take the emailed token
NextMail ==
    \/ \E email \in Emails, password \in RegisterPasswords : register_user(email, password)
    \/ \E email \in Emails : resend_activation_token(email)
    \/ \E email \in Emails : request_password_reset_token(email)
    \/ \E email \in Emails, token \in IssuedStrings : activate_user(email, token)
    \/ \E email \in Emails, token \in IssuedStrings, password \in NewPasswords :
          reset_password_complete(email, token, password)
    \/ TickReset

SpecMail == InitMail /\ [][NextMail]_vars

(* =============================== claims ================================ *)

\* the bearer token verifies at this instant, carries "sub", and "sub" is the id
\* of an existing user that is active
Authentic(token, user_id) ==
    /\ token.key = SECRET_KEY
    /\ token.alg = ALGORITHM
    /\ token.exp >= now
    /\ "sub" \in DOMAIN token.claims
    /\ token.claims.sub = user_id
    /\ user_id \in 1..Len(users)
    /\ users[user_id].is_active

\* the user a bearer token authenticates, None when it authenticates nobody
AuthenticatedUser(token) ==
    IF \E user_id \in 1..Len(users) : Authentic(token, user_id)
    THEN token.claims.sub
    ELSE None

\* a row whose expiry is at or before now
PastExpiry(row) == row.expires_at <= now

\* the rows of a token table owned by a user
RowsOf(table, user) == {r \in table : r.user_id = user}

\* what register_user does to the tables for a new email: one inactive user and
\* one activation token row of that user are added, nothing else changes
RegisterAdds(email) ==
    /\ Len(users') = Len(users) + 1
    /\ SubSeq(users', 1, Len(users)) = users
    /\ users'[Len(users')].email = email
    /\ ~users'[Len(users')].is_active
    /\ activation_tokens \subseteq activation_tokens'
    /\ Cardinality(activation_tokens' \ activation_tokens) = 1
    /\ \A r \in activation_tokens' \ activation_tokens : r.user_id = Len(users')
    /\ UNCHANGED <<password_reset_tokens, refresh_tokens, user_groups>>

\* exactly one send_activation_email call, whose link carries the token of the
\* activation row the request added
OneActivationMail(email) ==
    /\ Len(mail') = 1
    /\ mail'[1].to = email
    /\ mail'[1].subject = "Activate your account"
    /\ mail'[1].body.link.path = "/activate"
    /\ \A r \in activation_tokens' \ activation_tokens : mail'[1].body.link.token = r.token

\* C1 as stated: register_user fails with 409 and adds no row for a stored email;
\* for a new email (default group present) it adds one inactive user and one
\* activation token of that user and sends exactly one activation email whose
\* link carries that token.  Fails: with SMTP_HOST unset nothing is sent.
C1_AsStated ==
    [][\A email \in Emails, password \in RegisterPasswords :
         register_user(email, password) =>
           IF FindUser(email) # None
           THEN resp'.status = 409 /\ UNCHANGED tables
           ELSE (UserGroupEnum_USER \in user_groups) =>
                  /\ RegisterAdds(email)
                  /\ OneActivationMail(email)
                  /\ mail'[1].result = "sent"]_vars

\* C1 amended: as C1, except that the one send_activation_email call delivers
\* the message only when SMTP_HOST is set and the transport does not raise; it
\* is skipped when SMTP_HOST is unset, and when the transport raises the request
\* ends in an uncaught error with the user and the token persisted.
C1_Register ==
    [][\A email \in Emails, password \in RegisterPasswords :
         register_user(email, password) =>
           IF FindUser(email) # None
           THEN resp'.status = 409 /\ UNCHANGED tables /\ mail' = <<>>
           ELSE (UserGroupEnum_USER \in user_groups) =>
                  /\ RegisterAdds(email)
                  /\ OneActivationMail(email)
                  /\ (SMTP_HOST = NoHost) <=> (mail'[1].result = "skipped")
                  /\ (mail'[1].result = "raised") <=> (resp'.status = 500)
                  /\ (mail'[1].result # "raised") <=> (resp'.status = 201)]_vars

\* a registration answered 201 whose one mail carries the token of the new
\* user's activation row
C1_Witness ==
    /\ resp.op = "register" /\ resp.status = 201
    /\ Len(mail) = 1 /\ mail[1].result = "sent"
    /\ \E r \in activation_tokens :
         /\ r.user_id = resp.body.id
         /\ r.token = mail[1].body.link.token
    /\ ~users[resp.body.id].is_active

\* C2: for every active user the access_token of a successful login is accepted
\* by get_current_user (while it has not expired) and resolves to that user.
\* Fails in the code: login signs with SECRET_KEY_ACCESS and the claim
\* "user_id", get_current_user verifies with SECRET_KEY and reads "sub".
C2_LoginTokenAccepted ==
    (resp.op = "login" /\ resp.status = 201
       /\ ~(resp.body.access_token.exp < now))
    => /\ get_current_user(resp.body.access_token) # None
       /\ get_current_user(resp.body.access_token)
            = claim_get(resp.body.refresh_token.claims, "user_id")

\* C3: refresh_access_token with a decodable token, a persisted unexpired row
\* and an active user answers 200 with an access_token whose user identifier
\* is the refresh token's.  Fails in the code: the handler returns nothing.
C3_RefreshReturnsToken ==
    [][\A token \in PresentableTokens :
         (/\ refresh_access_token(token)
          /\ refresh_token_decodes(token, now)
          /\ {r \in refresh_tokens : r.token = token} # {}
          /\ \A r \in refresh_tokens : r.token = token => ~PastExpiry(r)
          /\ claim_get(token.claims, "user_id") \in 1..Len(users)
          /\ users[claim_get(token.claims, "user_id")].is_active)
         => /\ resp'.status = 200
            /\ "access_token" \in DOMAIN resp'.body
            /\ claim_get(resp'.body.access_token.claims, "user_id")
                 = claim_get(token.claims, "user_id")]_vars

\* the user's row holds this unexpired activation token string
HoldsLiveActivation(user, token) ==
    \E r \in RowsOf(activation_tokens, user) : r.token = token /\ ~PastExpiry(r)

\* C4: activate_user with the user's correct, unexpired token sets the user
\* active and deletes the row; a later activate_user for the same email and
\* token fails with 400 "Invalid or expired activation token." and changes
\* nothing.  Fails in the code: the second call is answered "User account is
\* already active."
C4_SecondActivationGeneric ==
    [][\A email \in Emails, token \in IssuedStrings :
         activate_user(email, token) =>
           LET user == FindUser(email) IN
           /\ (user # None /\ ~users[user].is_active
                 /\ HoldsLiveActivation(user, token))
              => /\ users'[user].is_active
                 /\ RowsOf(activation_tokens', user) = {}
           /\ (resp.op = "activate" /\ resp.status = 200
                 /\ resp.req = [email |-> email, token |-> token])
              => /\ resp'.status = 400
                 /\ resp'.detail = ActivationGeneric
                 /\ UNCHANGED tables]_vars

\* C5: every failing activate_user answers with the same status (400) and the
\* same message text.  Fails in the code: an already active user gets its own
\* message.
C5_ActivationFailuresAlike ==
    (resp.op = "activate" /\ resp.status # 200)
    => (resp.status = 400 /\ resp.detail = ActivationGeneric)

\* C6 as stated: activate_user for an inactive user whose activation row has
\* expired fails with 400, leaves the user inactive, and leaves no expired
\* activation row of that user.  Fails: a token string that does not match is
\* rejected before the expiry is looked at, and the expired row stays.
C6_AsStated ==
    [][\A email \in Emails, token \in IssuedStrings :
         activate_user(email, token) =>
           LET user == FindUser(email) IN
           (user # None /\ ~users[user].is_active
              /\ \E r \in RowsOf(activation_tokens, user) : PastExpiry(r))
           => /\ resp'.status = 400
              /\ ~users'[user].is_active
              /\ ~\E r \in RowsOf(activation_tokens', user) : PastExpiry(r)]_vars

\* C6 amended: for an inactive user whose activation row has expired the
\* request fails with the generic 400 and the user stays inactive; when the
\* supplied token string equals the row's token the row is deleted and no
\* expired activation row of the user remains, and when it does not match no
\* row changes.
C6_ExpiredActivation ==
    [][\A email \in Emails, token \in IssuedStrings :
         activate_user(email, token) =>
           LET user == FindUser(email) IN
           (user # None /\ ~users[user].is_active
              /\ \E r \in RowsOf(activation_tokens, user) : PastExpiry(r))
           => /\ resp'.status = 400
              /\ resp'.detail = ActivationGeneric
              /\ users' = users
              /\ IF \E r \in RowsOf(activation_tokens, user) :
                        PastExpiry(r) /\ r.token = token
                 THEN /\ ~\E r \in RowsOf(activation_tokens', user) : PastExpiry(r)
                      /\ \A r \in activation_tokens :
                            r.user_id # user => r \in activation_tokens'
                      /\ activation_tokens' \subseteq activation_tokens
                      /\ UNCHANGED <<password_reset_tokens, refresh_tokens>>
                 ELSE UNCHANGED tables]_vars

\* an activation answered 400 after a commit: the expired row was deleted and
\* the user is still inactive
C6_Witness ==
    /\ resp.op = "activate" /\ resp.status = 400 /\ resp.commit
    /\ FindUser(resp.req.email) # None
    /\ ~users[FindUser(resp.req.email)].is_active
    /\ RowsOf(activation_tokens, FindUser(resp.req.email)) = {}

\* C7: login_user answers 401 with one text for an unknown email and for a
\* wrong password, 403 for correct credentials of an inactive user, and 201
\* for an active user, adding exactly one RefreshToken row of that user that
\* holds the returned refresh token; a failing login leaves the RefreshToken
\* table unchanged.
C7_Login ==
    [][\A email \in Emails, password \in Passwords :
         login_user(email, password) =>
           LET user == FindUser(email) IN
           IF user = None \/ users[user].password # hash_password(password)
           THEN /\ resp'.status = 401
                /\ resp'.detail = "Invalid email or password."
                /\ UNCHANGED tables
           ELSE IF ~users[user].is_active
           THEN /\ resp'.status = 403
                /\ UNCHANGED tables
           ELSE /\ resp'.status = 201
                /\ refresh_tokens \subseteq refresh_tokens'
                /\ Cardinality(refresh_tokens' \ refresh_tokens) = 1
                /\ \A r \in refresh_tokens' \ refresh_tokens :
                      /\ r.user_id = user
                      /\ r.token = resp'.body.refresh_token
                /\ UNCHANGED <<users, activation_tokens, password_reset_tokens>>]_vars

\* a login answered 201 whose refresh token is persisted for an active user,
\* while another user is still inactive
C7_Witness ==
    /\ resp.op = "login" /\ resp.status = 201
    /\ \E r \in refresh_tokens :
         /\ r.token = resp.body.refresh_token
         /\ users[r.user_id].is_active
    /\ \E i \in 1..Len(users) : ~users[i].is_active

\* C8: refresh_access_token with a decodable token whose persisted row has
\* expires_at <= now (user active) deletes exactly that row, commits and
\* answers 401; a decode failure answers 400, a missing row or a missing or
\* inactive user answers 401, each without changing any row.
C8_RefreshFailures ==
    [][\A token \in PresentableTokens :
         refresh_access_token(token) =>
           LET rows == {r \in refresh_tokens : r.token = token}
               user_id == claim_get(token.claims, "user_id")
           IN
           IF ~refresh_token_decodes(token, now)
           THEN resp'.status = 400 /\ UNCHANGED tables
           ELSE IF rows = {}
           THEN resp'.status = 401 /\ UNCHANGED tables
           ELSE IF user_id \notin 1..Len(users) \/ ~users[user_id].is_active
           THEN resp'.status = 401 /\ UNCHANGED tables
           ELSE (\A r \in rows : PastExpiry(r))
                => /\ resp'.status = 401
                   /\ resp'.commit
                   /\ \E r \in rows : refresh_tokens' = refresh_tokens \ {r}
                   /\ UNCHANGED <<users, activation_tokens, password_reset_tokens>>]_vars

\* a refresh answered 401 after a commit: the expired row was deleted
C8_Witness ==
    /\ resp.op = "refresh" /\ resp.status = 401 /\ resp.commit
    /\ resp.detail = "Refresh token expired."
    /\ ~\E r \in refresh_tokens : r.token = resp.req.refresh_token

\* what logout_user does to the tables, by the outcome of the verification
LogoutEffect(token) ==
    /\ resp'.status = 200
    /\ resp'.body = [message |-> "Logged out."]
    /\ IF refresh_token_decodes(token, now)
       THEN /\ refresh_tokens' = {r \in refresh_tokens : r.token # token}
            /\ UNCHANGED <<users, activation_tokens, password_reset_tokens>>
       ELSE UNCHANGED tables

\* C9 as stated: logout_user always answers "Logged out."; with a verifying
\* token it deletes every row of that token value and nothing else, so a later
\* refresh_access_token with that token fails with 401; with a token that does
\* not verify no row changes.  Fails: once the JWT itself has expired the later
\* refresh is answered 400.
C9_AsStated ==
    [][/\ \A token \in PresentableTokens :
            logout_user(token) => LogoutEffect(token)
       /\ \A token \in PresentableTokens :
            (/\ resp.op = "logout" /\ resp.commit
             /\ resp.req.refresh_token = token
             /\ refresh_access_token(token))
            => resp'.status = 401]_vars

\* C9 amended: as C9, except that the later refresh_access_token with the
\* logged-out token (no login in between) fails with 401 only while the token
\* still decodes, and with 400 once the JWT itself has expired.  Rows are added
\* to the table by login alone, and a token without a row never refreshes.
C9_Logout ==
    [][/\ \A token \in PresentableTokens :
            logout_user(token) => LogoutEffect(token)
       /\ \A token \in PresentableTokens :
            (/\ refresh_access_token(token)
             /\ ~\E r \in refresh_tokens : r.token = token)
            => /\ resp'.status = IF refresh_token_decodes(token, now) THEN 401 ELSE 400
               /\ UNCHANGED tables
       /\ (refresh_tokens' \ refresh_tokens # {}) => resp'.op = "login"]_vars

\* a logout that verified its token and committed, leaving no row of that
\* token value while another refresh row is still there
C9_Witness ==
    /\ resp.op = "logout" /\ resp.commit
    /\ resp.body = [message |-> "Logged out."]
    /\ ~\E r \in refresh_tokens : r.token = resp.req.refresh_token
    /\ refresh_tokens # {}

\* C10: request_password_reset_token answers every email with the identical
\* body; for an unknown or inactive user it changes nothing and sends nothing;
\* for an active user it leaves exactly one, new, PasswordResetToken row of
\* that user and one reset email carrying the new token (delivered when
\* SMTP_HOST is set).  Fails in the code: when the transport raises, the
\* request of an active user ends in an uncaught 500.
C10_ResetRequestUniform ==
    [][\A email \in Emails :
         request_password_reset_token(email) =>
           LET user == FindUser(email) IN
           /\ resp'.status = 200
           /\ resp'.body = [message |-> ResetAck]
           /\ IF user = None \/ ~users[user].is_active
              THEN UNCHANGED tables /\ mail' = <<>>
              ELSE /\ Cardinality(RowsOf(password_reset_tokens', user)) = 1
                   /\ RowsOf(password_reset_tokens', user) \cap password_reset_tokens = {}
                   /\ \A r \in password_reset_tokens :
                         r.user_id # user => r \in password_reset_tokens'
                   /\ Len(mail') = 1
                   /\ mail'[1].to = email
                   /\ mail'[1].body.link.path = "/reset-password"
                   /\ \A r \in RowsOf(password_reset_tokens', user) :
                         mail'[1].body.link.token = r.token
                   /\ (SMTP_HOST # NoHost) => (mail'[1].result = "sent")]_vars

(* ------------------------------ C11 ------------------------------------ *)

\* C11: every failing reset_password_complete answers 400 with the one detail
\* "Invalid email or token." and leaves every password as it was, whatever the
\* cause: unknown email, inactive user, no reset row, wrong token, expired
\* token.  In the first three cases no table changes.  In the wrong-token and
\* expired-token cases the user's reset row is deleted and nothing else
\* changes, so that the user has no reset row left and the next attempt, even
\* with the token that had been issued, meets the no-row case.
C11_ResetFailures ==
    [][\A email \in Emails, token \in IssuedStrings, password \in Passwords :
         (resp'.op = "reset_complete" /\ reset_password_complete(email, token, password)) =>
           LET user == FindUser(email)
               rows == RowsOf(password_reset_tokens, user)
               failed == resp'.status = 400 /\ resp'.detail = ResetInvalid
                         /\ resp'.body = NoBody /\ users' = users
           IN  IF user = None \/ ~users[user].is_active \/ rows = {}
               THEN failed /\ UNCHANGED tables
               ELSE IF \E r \in rows : r.token # token \/ PastExpiry(r)
               THEN /\ failed
                    /\ RowsOf(password_reset_tokens', user) = {}
                    /\ \A r \in password_reset_tokens : r.user_id # user =>
                          r \in password_reset_tokens'
                    /\ password_reset_tokens' \subseteq password_reset_tokens
                    /\ UNCHANGED <<user_groups, activation_tokens, refresh_tokens>>
               ELSE resp'.status = 200]_vars

\* a wrong guess made while the issued token was still valid deleted the row
C11_Witness ==
    /\ resp.op = "reset_complete"
    /\ resp.status = 400
    /\ resp.commit
    /\ now < PasswordResetTokenDays
    /\ FindUser(resp.req.email) # None
    /\ RowsOf(password_reset_tokens, FindUser(resp.req.email)) = {}

(* ------------------------------ C12 ------------------------------------ *)

\* C12: a password reset token is single-use.  reset_password_complete with the
\* token of the user's reset row, before that row expires, answers 200, makes
\* the supplied password the user's password, changes no other user and
\* deletes the row.  Once it has succeeded, a login of that user succeeds with
\* the supplied password and answers 401 with any other one (the old one
\* included, when it differs), and a second reset_password_complete with the
\* same token answers 400 and changes no password.  A deleted token never
\* comes back: every reset row that appears carries a freshly generated token.
C12_ResetSingleUse ==
    [][/\ \A email \in Emails, token \in IssuedStrings, password \in Passwords :
            (resp'.op = "reset_complete" /\ reset_password_complete(email, token, password)) =>
              LET user == FindUser(email) IN
              (/\ user # None
               /\ users[user].is_active
               /\ \E r \in RowsOf(password_reset_tokens, user) :
                     r.token = token /\ ~PastExpiry(r))
              => /\ resp'.status = 200
                 /\ resp'.body = [message |-> "Password reset successfully."]
                 /\ users' = [users EXCEPT ![user].password = hash_password(password)]
                 /\ verify_password(users'[user], password)
                 /\ \A r \in password_reset_tokens' : r.token # token
                 /\ RowsOf(password_reset_tokens', user) = {}
       /\ (resp.op = "reset_complete" /\ resp.status = 200) =>
            /\ \A password \in Passwords :
                  (resp'.op = "login" /\ login_user(resp.req.email, password)) =>
                     resp'.status = (IF password = resp.req.password THEN 201 ELSE 401)
            /\ \A password \in Passwords :
                  (resp'.op = "reset_complete"
                   /\ reset_password_complete(resp.req.email, resp.req.token, password)) =>
                     resp'.status = 400 /\ users' = users
       /\ \A r \in password_reset_tokens' \ password_reset_tokens :
             r.token = next_id /\ next_id' = next_id + 1]_vars

\* a reset to another password has succeeded and a login can follow
C12_Witness ==
    /\ resp.op = "reset_complete"
    /\ resp.status = 200
    /\ resp.req.password = "pw2"
    /\ ~verify_password(users[FindUser(resp.req.email)], "pw1")
    /\ next_id <= MaxIds

(* ------------------------------ C13 ------------------------------------ *)

\* C13: change_password for the user the bearer token authenticates.  When
\* old_password does not verify against the stored hash the answer is 400 and
\* no table changes.  Otherwise the answer is 200, the user's stored password
\* becomes new_password and no other user's row changes; a login of that user
\* that follows succeeds with new_password and answers 401 with any other
\* password (the old one included, when it differs).
C13_ChangePassword ==
    [][/\ \A token \in BearerTokens, old_password \in Passwords, new_password \in Passwords :
            (resp'.op = "change_password"
             /\ change_password(token, old_password, new_password)
             /\ AuthenticatedUser(token) # None) =>
              LET user == AuthenticatedUser(token) IN
              IF ~verify_password(users[user], old_password)
              THEN /\ resp'.status = 400
                   /\ resp'.detail = "Old password is incorrect."
                   /\ UNCHANGED tables
              ELSE /\ resp'.status = 200
                   /\ resp'.body = [message |-> "Password changed successfully."]
                   /\ users' = [users EXCEPT ![user].password = hash_password(new_password)]
                   /\ \A other \in 1..Len(users) : other # user => users'[other] = users[other]
                   /\ UNCHANGED <<user_groups, activation_tokens, password_reset_tokens,
                                  refresh_tokens>>
       /\ (resp.op = "change_password" /\ resp.status = 200) =>
            \A password \in Passwords :
               (resp'.op = "login"
                /\ login_user(users[AuthenticatedUser(resp.req.token)].email, password)) =>
                  resp'.status = (IF password = resp.req.new_password THEN 201 ELSE 401)]_vars

(* ------------------------------ C14 ------------------------------------ *)

\* C14: resend_activation_token answers every email with the same body, 200
\* and the one generic message.  For an unknown or an already active email no
\* table changes and no email is sent.  For an inactive user the user's
\* activation rows are replaced by exactly one new, unexpired row with a fresh
\* token, so that no earlier token of the user is left to activate with, and
\* nothing else changes.
C14_ResendUniform ==
    [][\A email \in Emails :
         (resp'.op = "resend" /\ resend_activation_token(email)) =>
           LET user == FindUser(email) IN
           /\ resp'.status = 200
           /\ resp'.body = [message |-> ResendAck]
           /\ IF user = None \/ users[user].is_active
              THEN UNCHANGED tables /\ mail' = <<>>
              ELSE /\ \E row \in activation_tokens' :
                         /\ RowsOf(activation_tokens', user) = {row}
                         /\ row \notin activation_tokens
                         /\ \A r \in activation_tokens : r.token # row.token
                         /\ row.expires_at > now
                   /\ \A r \in activation_tokens : r.user_id # user =>
                         r \in activation_tokens'
                   /\ \A r \in activation_tokens' : r.user_id # user =>
                         r \in activation_tokens
                   /\ UNCHANGED <<users, user_groups, password_reset_tokens,
                                  refresh_tokens>>]_vars

(* ------------------------------ C15 ------------------------------------ *)

\* the rows of the three token tables whose expires_at is at or before now
PastRows ==
    {r \in activation_tokens : PastExpiry(r)}
    \cup {r \in password_reset_tokens : PastExpiry(r)}
    \cup {r \in refresh_tokens : PastExpiry(r)}

\* C15: cleanup_expired_tokens deletes from each of the three token tables
\* exactly the rows with expires_at <= now and leaves every other row, and
\* every user, as it was; it returns the number of rows it deleted.  After it
\* no such row is left, and a run that finds no such row deletes nothing and
\* returns 0.
C15_Cleanup ==
    [][(resp'.op = "cleanup" /\ cleanup_expired_tokens) =>
         /\ activation_tokens' = {r \in activation_tokens : ~PastExpiry(r)}
         /\ password_reset_tokens' = {r \in password_reset_tokens : ~PastExpiry(r)}
         /\ refresh_tokens' = {r \in refresh_tokens : ~PastExpiry(r)}
         /\ UNCHANGED <<users, user_groups, now>>
         /\ resp'.body.total =
               (Cardinality(activation_tokens) - Cardinality(activation_tokens'))
               + (Cardinality(password_reset_tokens) - Cardinality(password_reset_tokens'))
               + (Cardinality(refresh_tokens) - Cardinality(refresh_tokens'))
         /\ PastRows' = {}
         /\ PastRows = {} => (resp'.body.total = 0 /\ UNCHANGED tables)]_vars

\* a run deleted an expired row and left a row that had not expired
C15_Witness ==
    /\ resp.op = "cleanup"
    /\ resp.body.total > 0
    /\ refresh_tokens # {}

(* ------------------------------ C16 ------------------------------------ *)

\* C16: for the user the bearer token authenticates, add_to_favorites and
\* remove_from_favorites are idempotent per (user, movie).  Both answer 404
\* and change nothing when the movie does not exist.  add answers 200 whether
\* or not the movie is already a favourite and leaves exactly the one
\* association of that user with that movie; remove answers 200 whether or
\* not the movie is a favourite and leaves no association of that user with
\* that movie, creating and deleting nothing when there was none.  Neither
\* changes the favourites of another user, the catalogue or any other table.
C16_FavoritesIdempotent ==
    [][\A token \in BearerTokens, movie_id \in 1..(MaxMovies + 1) :
         LET user == AuthenticatedUser(token)
             mine == {row \in user_favorites : row[1] = user}
             others == {row \in user_favorites : row[1] # user}
             others_after == {row \in user_favorites' : row[1] # user}
             mine_after == {row \in user_favorites' : row[1] = user}
         IN
         user # None =>
         /\ (resp'.op = "add_to_favorites" /\ add_to_favorites(token, movie_id)) =>
              /\ others_after = others
              /\ UNCHANGED <<tables, movies>>
              /\ IF movie_id \notin MovieIds
                 THEN resp'.status = 404 /\ UNCHANGED user_favorites
                 ELSE /\ resp'.status = 200
                      /\ resp'.body = [message |-> "Added to favorites"]
                      /\ mine_after = mine \cup {<<user, movie_id>>}
                      /\ <<user, movie_id>> \in mine => UNCHANGED user_favorites
         /\ (resp'.op = "remove_from_favorites" /\ remove_from_favorites(token, movie_id)) =>
              /\ others_after = others
              /\ UNCHANGED <<tables, movies>>
              /\ IF movie_id \notin MovieIds
                 THEN resp'.status = 404 /\ UNCHANGED user_favorites
                 ELSE /\ resp'.status = 200
                      /\ resp'.body = [message |-> "Removed from favorites"]
                      /\ mine_after = mine \ {<<user, movie_id>>}
                      /\ <<user, movie_id>> \notin mine => UNCHANGED user_favorites]_vars

(* ------------------------------ C17 ------------------------------------ *)

\* C17: GET /movies/favorites/ with the bearer token of an authenticated user
\* is served by get_favorite_movies, not by the route /movies/{movie_id}/
\* registered before it, and answers 200 with a paginated list whose items are
\* exactly the favourites of that user.
C17_FavoritesRoute ==
    [][\A token \in BearerTokens :
         (AuthenticatedUser(token) # None /\ http_request("GET", <<"favorites">>, token)) =>
           /\ resp'.op = "get_favorite_movies"
           /\ resp'.status = 200
           /\ {resp'.body.items[i].id : i \in DOMAIN resp'.body.items}
                 = {row[2] : row \in {r \in user_favorites :
                                         r[1] = AuthenticatedUser(token)}}
           /\ resp'.body.total = Len(resp'.body.items)
           /\ UNCHANGED <<tables, catalog>>]_vars

(* ------------------------------ C18 ------------------------------------ *)

\* the least n with n * size >= total
CeilDiv(total, size) ==
    CHOOSE n \in 0..total :
       n * size >= total /\ \A k \in 0..total : k * size >= total => n <= k

\* seq holds every element of ids once, in an order descending by the column
DescendingListOf(seq, ids, sort_by) ==
    /\ Len(seq) = Cardinality(ids)
    /\ {seq[i] : i \in DOMAIN seq} = ids
    /\ \A i \in 1..(Len(seq) - 1) :
          sort_column(seq[i], sort_by) >= sort_column(seq[i + 1], sort_by)

\* C18: get_movies with page >= 1 and 1 <= size <= 100 answers 200 with
\* total = the number of movies that pass the filters,
\* pages = max(1, ceil(total / size)), the page requested, and items = the
\* elements at offsets (page - 1) * size up to page * size of a list of the
\* filtered movies in descending order of the sort_by column, so that each
\* item's value is at least the next item's; items is empty when page > pages.
\* Nothing is written.
C18_Pagination ==
    [][(resp'.op = "get_movies" /\ get_movies(query)) =>
         LET filtered == select_movies(MovieIds, query)
             total == Cardinality(filtered)
             body == resp'.body
             first == (query.page - 1) * query.size + 1
             last == IF query.page * query.size < total
                     THEN query.page * query.size ELSE total
         IN  /\ resp'.status = 200
             /\ body.total = total
             /\ body.page = query.page
             /\ body.pages = (IF CeilDiv(total, query.size) > 1
                              THEN CeilDiv(total, query.size) ELSE 1)
             /\ \E list \in [1..total -> filtered] :
                   /\ DescendingListOf(list, filtered, query.sort_by)
                   /\ body.items = [i \in 1..(IF last >= first THEN last - first + 1 ELSE 0)
                                      |-> MovieListItemSchema(list[first + i - 1])]
             /\ \A i \in 1..(Len(body.items) - 1) :
                   sort_column(body.items[i].id, query.sort_by)
                      >= sort_column(body.items[i + 1].id, query.sort_by)
             /\ query.page > body.pages => body.items = <<>>
             /\ UNCHANGED <<tables, catalog>>]_vars

\* the second of two pages was served: the movie with the lower value, alone
C18_Witness ==
    /\ resp.op = "get_movies"
    /\ resp.body.total = 2
    /\ resp.body.pages = 2
    /\ resp.body.page = 2
    /\ Len(resp.body.items) = 1
    /\ \E id \in MovieIds :
          sort_column(id, query.sort_by) > sort_column(resp.body.items[1].id, query.sort_by)

(* ------------------------------ C19 ------------------------------------ *)

\* a numeric filter takes part: it was supplied and is not 0
Supplied(param) == Len(param) = 1 /\ param[1] # 0

\* the movie passes the numeric filters that take part
PassesFilters(id, q) ==
    /\ Supplied(q.year) => movies[id].year = q.year[1]
    /\ Supplied(q.min_imdb) => movies[id].imdb >= q.min_imdb[1]
    /\ Supplied(q.max_price) => movies[id].price <= q.max_price[1]

\* the query without numeric filters, and the query with every 0 left out
NoFilters(q) == [q EXCEPT !.year = Absent, !.min_imdb = Absent, !.max_price = Absent]

OmitZero(q) ==
    [q EXCEPT !.year = IF Supplied(@) THEN @ ELSE Absent,
              !.min_imdb = IF Supplied(@) THEN @ ELSE Absent,
              !.max_price = IF Supplied(@) THEN @ ELSE Absent]

\* what a listing over `scope` must answer for q: the movies listed and counted
\* are the ones of the unfiltered listing that pass every filter taking part,
\* and the body is one the listing gives for the query with the zeros left out
FiltersAnded(op, scope, q, body) ==
    LET expected == {id \in select_movies(scope, NoFilters(q)) : PassesFilters(id, q)} IN
    /\ body.total = Cardinality(expected)
    /\ \A i \in DOMAIN body.items : body.items[i].id \in expected
    /\ \E rows \in order_by_desc(select_movies(scope, OmitZero(q)), q.sort_by) :
          body = MovieListResponse(op, OmitZero(q),
                                   select_movies(scope, OmitZero(q)), rows).body

Substring(term, text) ==
    \E start \in 0..(Len(text) - Len(term)) :
       \A i \in 1..Len(term) : text[start + i] = term[i]

\* the lower-cased term is a substring of the lower-cased name, description,
\* name of a star or name of a director of the movie
SearchHit(id, term) ==
    \/ Substring(lower(term), lower(movies[id].name))
    \/ Substring(lower(term), lower(movies[id].description))
    \/ \E star \in movies[id].stars : Substring(lower(term), lower(star))
    \/ \E director \in movies[id].directors : Substring(lower(term), lower(director))

\* C20: get_movies with a search term lists exactly the movies, among those
\* passing the other filters, for which the lower-cased term is a substring
\* of the lower-cased name, description, some star's name or some director's
\* name.  Each movie is counted once in total and occurs at most once in
\* items, however many of its stars and directors match, and a movie without
\* stars and directors still matches on its name or description.
C20_Search ==
    [][(resp'.op = "get_movies" /\ query.search # Absent /\ get_movies(query)) =>
         LET others == select_movies(MovieIds, [query EXCEPT !.search = Absent])
             hits == {id \in others : SearchHit(id, query.search[1])}
             items == resp'.body.items
         IN  /\ resp'.body.total = Cardinality(hits)
             /\ \A i \in DOMAIN items : items[i].id \in hits
             /\ \A i, j \in DOMAIN items : i # j => items[i].id # items[j].id
             /\ query.page = 1 /\ query.size >= Cardinality(hits) =>
                   {items[i].id : i \in DOMAIN items} = hits]_vars

(* ------------------------------ C21 ------------------------------------ *)

\* what a request to an authenticated endpoint does with this bearer token
AuthenticatedEffect(token) ==
    LET user_id == AuthenticatedUser(token) IN
    IF user_id # None
    THEN /\ \A i \in 1..Len(users) : i # user_id => users'[i] = users[i]
         /\ \A row \in (user_favorites' \ user_favorites)
                       \cup (user_favorites \ user_favorites') : row[1] = user_id
    ELSE /\ resp'.status = 401
         /\ resp'.detail = "Could not validate credentials"
         /\ UNCHANGED <<tables, catalog>>

\* C21: get_current_user returns a user only when the token verifies, carries
\* "sub" and names an existing active user, and then it is that user; for
\* every other token (wrong key or algorithm, expired, malformed, no "sub",
\* unknown id, inactive user) it fails with the 401, so that every
\* authenticated endpoint (change_password, add_to_favorites,
\* remove_from_favorites, get_favorite_movies) answers 401 "Could not validate
\* credentials" and changes neither the tables nor the favourites, and what
\* such an endpoint changes belongs to the authenticated user
C21_AuthenticatedOnly ==
    [][/\ \A token \in AuthTokens :
            LET user == get_current_user(token) IN
            /\ user \notin {None, AttributeError} => user = AuthenticatedUser(token)
            /\ AuthenticatedUser(token) = None => user = None
       /\ \A token \in AuthTokens :
            /\ (resp'.op = "change_password" /\ resp'.req.token = token
                /\ \E old_password \in Passwords, new_password \in Passwords :
                     change_password(token, old_password, new_password))
               => AuthenticatedEffect(token)
            /\ (resp'.op = "add_to_favorites" /\ resp'.req.token = token
                /\ \E movie_id \in 1..(Len(movies) + 1) : add_to_favorites(token, movie_id))
               => AuthenticatedEffect(token)
            /\ (resp'.op = "remove_from_favorites" /\ resp'.req.token = token
                /\ \E movie_id \in 1..(Len(movies) + 1) :
                     remove_from_favorites(token, movie_id))
               => AuthenticatedEffect(token)
            /\ (resp'.op = "get_favorite_movies" /\ get_favorite_movies(token, query))
               => AuthenticatedEffect(token)]_vars

(* ------------------------------ C22 ------------------------------------ *)

\* C22: two resend_activation_token requests for the same inactive user (and
\* two request_password_reset_token requests for the same active user) that
\* overlap leave more than one token row of that user: a request's commit
\* removes only the rows its own delete saw, so the user has more than one row
\* after a commit exactly when another request committed a row of that user
\* between this request's delete and its commit
C22_OverlapLeavesTwoRows ==
    [][\A request \in 1..MaxRequests :
         /\ (resp'.op = "resend" /\ resend_commit(request)) =>
              \A r \in Suspended(request) :
                 (Cardinality(RowsOf(activation_tokens', r.user)) > 1)
                 <=> (RowsOf(activation_tokens, r.user) \ r.deleted # {})
         /\ (resp'.op = "reset_request" /\ reset_request_commit(request)) =>
              \A r \in Suspended(request) :
                 (Cardinality(RowsOf(password_reset_tokens', r.user)) > 1)
                 <=> (RowsOf(password_reset_tokens, r.user) \ r.deleted # {})]_vars

\* every request has returned, and a user holds two activation rows while
\* another holds two password reset rows
C22_Witness ==
    /\ inflight = {}
    /\ \E user \in 1..Len(users) : Cardinality(RowsOf(activation_tokens, user)) > 1
    /\ \E user \in 1..Len(users) : Cardinality(RowsOf(password_reset_tokens, user)) > 1

(* ------------------------------ C23 ------------------------------------ *)

\* C23: when requests run one at a time, after any sequence of register,
\* resend, activate, password reset request, reset complete, cleanup (and the
\* other operations) every user has at most one activation token row and at
\* most one password reset token row
C23_OneTokenPerUser ==
    \A user \in 1..Len(users) :
       /\ Cardinality(RowsOf(activation_tokens, user)) <= 1
       /\ Cardinality(RowsOf(password_reset_tokens, user)) <= 1

\* the first user, whose registration issued token 1, asked for a new
\* activation token and holds that one only
C23_Witness ==
    /\ resp.op = "resend"
    /\ resp.commit
    /\ \E row \in activation_tokens :
          /\ row.id > 1
          /\ RowsOf(activation_tokens, 1) = {row}

(* ------------------------------ C24 ------------------------------------ *)

\* C24: user state only moves forward.  No step deletes a user row or changes
\* its email, a new user starts inactive, an active user stays active, and a
\* user turns active only in an activate_user request that answers 200 for
\* that user's email and presents the token of an activation row of that user
\* which has not expired
C24_ForwardOnly ==
    [][/\ Len(users') >= Len(users)
       /\ \A user \in (Len(users) + 1)..Len(users') : ~users'[user].is_active
       /\ \A user \in 1..Len(users) :
            /\ users'[user].email = users[user].email
            /\ users[user].is_active => users'[user].is_active
            /\ (~users[user].is_active /\ users'[user].is_active) =>
                 /\ resp'.op = "activate"
                 /\ resp'.status = 200
                 /\ resp'.req.email = users[user].email
                 /\ \E row \in RowsOf(activation_tokens, user) :
                       row.token = resp'.req.token /\ ~PastExpiry(row)]_vars

\* a user activated with their token and, active since, had the password reset
C24_Witness ==
    /\ resp.op = "reset_complete"
    /\ resp.status = 200
    /\ users[FindUser(resp.req.email)].is_active
    /\ \E other \in 1..Len(users) : ~users[other].is_active

(* ------------------------------ C25 ------------------------------------ *)

MailRaised(op) ==
    /\ resp.op = op
    /\ Len(mail) = 1
    /\ mail[1].result = "raised"

\* C26: register_user, resend_activation_token and request_password_reset_token
\* commit before they send.  When the transport raises, the request ends in an
\* uncaught 500 while the user and token rows it wrote are persisted; the
\* token of the email that was not delivered is the one a following
\* activate_user or reset_password_complete accepts (before it expires)
C26_CommitBeforeSend ==
    [][/\ (resp'.op \in {"register", "resend", "reset_request"}
           /\ Len(mail') = 1 /\ mail'[1].result = "raised"
           /\ now' = now) =>
            LET user == CHOOSE i \in 1..Len(users') : users'[i].email = mail'[1].to
                table == IF resp'.op = "reset_request" THEN password_reset_tokens
                         ELSE activation_tokens
                after == IF resp'.op = "reset_request" THEN password_reset_tokens'
                         ELSE activation_tokens'
            IN  /\ resp'.status = 500
                /\ resp'.commit
                /\ resp'.op = "register" => Len(users') = Len(users) + 1
                /\ \E row \in after \ table :
                      /\ RowsOf(after, user) = {row}
                      /\ row.token = mail'[1].body.link.token
       /\ \A op \in {"register", "resend"} :
            (MailRaised(op) /\ resp'.op = "activate"
             /\ resp'.req.email = mail[1].to
             /\ resp'.req.token = mail[1].body.link.token
             /\ \A row \in activation_tokens :
                   row.token = mail[1].body.link.token => ~PastExpiry(row)) =>
               /\ resp'.status = 200
               /\ users'[FindUser(mail[1].to)].is_active
       /\ (MailRaised("reset_request") /\ resp'.op = "reset_complete"
           /\ resp'.req.email = mail[1].to
           /\ resp'.req.token = mail[1].body.link.token
           /\ \A row \in password_reset_tokens :
                 row.token = mail[1].body.link.token => ~PastExpiry(row)) =>
             /\ resp'.status = 200
             /\ verify_password(users'[FindUser(mail[1].to)], resp'.req.password)]_vars

\* a password reset request ended in the 500 of the transport; the row with
\* the token of the email that never arrived is there for the active user
C26_Witness ==
    /\ MailRaised("reset_request")
    /\ resp.status = 500
    /\ \E row \in password_reset_tokens :
          /\ row.token = mail[1].body.link.token
          /\ row.user_id = FindUser(mail[1].to)
          /\ users[row.user_id].is_active

(* ------------------------------ C27 ------------------------------------ *)

\* C27: in every reachable state every refresh token row and every password
\* reset token row belongs to an existing user that is active
C27_TokensOfActiveUsers ==
    \A row \in refresh_tokens \cup password_reset_tokens :
       /\ row.user_id \in 1..Len(users)
       /\ users[row.user_id].is_active

\* a user logged in and asked for a password reset: both rows are there
C27_Witness ==
    /\ refresh_tokens # {}
    /\ password_reset_tokens # {}

(* ------------------------------ C28 ------------------------------------ *)

\* the row a request presented: the rows of the table with that token value
Presented(table, token) == {row \in table : row.token = token}

\* C28: no operation succeeds with an expired token.  activate_user and
\* reset_password_complete answer 200 only for a token whose row has not
\* reached its expiry, refresh_access_token gets past its tests only for such
\* a row, and each rejects the row of the user at the instant expires_at = now
\* and later; cleanup_expired_tokens deletes exactly the rows with
\* expires_at <= now, so a row cleanup deletes is one no router accepts and
\* a row a router accepts is one cleanup keeps
C28_ExpiryAgrees ==
    [][/\ resp'.op = "activate" /\ now' = now =>
            LET rows == {row \in Presented(activation_tokens, resp'.req.token) :
                            row.user_id = FindUser(resp'.req.email)}
            IN  /\ resp'.status = 200 =>
                     /\ rows # {}
                     /\ \A row \in rows : ~PastExpiry(row)
                /\ (\E row \in rows : PastExpiry(row)) => resp'.status = 400
       /\ resp'.op = "reset_complete" /\ now' = now =>
            LET rows == {row \in Presented(password_reset_tokens, resp'.req.token) :
                            row.user_id = FindUser(resp'.req.email)}
            IN  /\ resp'.status = 200 =>
                     /\ rows # {}
                     /\ \A row \in rows : ~PastExpiry(row)
                /\ (\E row \in rows : PastExpiry(row)) => resp'.status = 400
       /\ resp'.op = "refresh" /\ now' = now =>
            LET rows == Presented(refresh_tokens, resp'.req.refresh_token)
            IN  /\ resp'.status \notin {400, 401} =>
                     /\ rows # {}
                     /\ \A row \in rows : ~PastExpiry(row)
                /\ (\E row \in rows : PastExpiry(row)) => resp'.status \in {400, 401}
       /\ resp'.op = "cleanup" /\ now' = now /\ cleanup_expired_tokens =>
            /\ activation_tokens' = {row \in activation_tokens : ~PastExpiry(row)}
            /\ password_reset_tokens' = {row \in password_reset_tokens : ~PastExpiry(row)}
            /\ refresh_tokens' = {row \in refresh_tokens : ~PastExpiry(row)}]_vars

\* at the instant an activation token expires its user presented it, was
\* answered 400, and the row was deleted
C28_Witness ==
    /\ resp.op = "activate"
    /\ resp.status = 400
    /\ resp.commit
    /\ now = ActivationTokenDays
    /\ ~users[FindUser(resp.req.email)].is_active

====
